---- MODULE Spec2Model ----
(***************************************************************************)
(* Klirk/parser_news: the news pipeline (NewsService.parse_news, the three *)
(* source parsers, NewsCollection, NewsRepository) and the product         *)
(* pipeline (the products endpoint, ProductService, HotlineParser,         *)
(* ProductRepository) as state machines over one set of variables.         *)
(*                                                                         *)
(* Strings that the code only compares or copies are atoms.  A url is the  *)
(* sequence of its pieces, cut so that every test the code makes on it     *)
(* (startswith, the substring test `domain in url`, urlparse().netloc,     *)
(* replace('www.', '')) is a computation on the sequence:                  *)
(*   "https://epravda.com.ua/news" is <<"https://","e","pravda.com.ua",    *)
(*   "/news">>, so that "pravda.com.ua" is a substring of it and its       *)
(*   netloc <<"e","pravda.com.ua">> differs from <<"pravda.com.ua">>.      *)
(* A datetime is [d |-> day ordinal, t |-> tick of the day]; an Optional   *)
(* value is <<>> (None) or <<v>>.                                          *)
(***************************************************************************)
EXTENDS Integers, Sequences, FiniteSets, Bags, TLC

VARIABLES
    pc,                  \* where the NewsService.parse_news call stands
    url,                 \* its argument url
    until_date,          \* its argument until_date (Optional datetime)
    web,                 \* what the remote sites can answer (the environment)
    parser,              \* the parser _get_parser_for_url chose (Optional name)
    page_urls,           \* date_urls / page_urls of the running parse_news
    page_tasks,          \* the listing-page fetches: [st, res, kind]
    page_semaphore,      \* self.page_semaphore._value of the chosen parser
    all_articles,        \* all_articles of parse_news (stub dicts)
    full_parse_articles, \* _process_articles_async: stubs to parse in full
    simple_news_items,   \* _process_articles_async: items of the cheap path
    full_news_items,     \* _process_articles_async: items of the batches so far
    batch_start,         \* _process_articles_async: i of the running batch
    article_tasks,       \* the running batch's fetches: [st, res]
    article_semaphore,   \* self.article_semaphore._value of the chosen parser
    result,              \* what parse_news of the parser returned (Optional)
    raised,              \* the exception that left the call (Optional text)
    store,               \* the news collection of the database (documents)
    now,                 \* the wall clock, in ticks
    response,            \* what the last repository lookup gave (Optional)
    hist,                \* what happened on the way (the code's log lines)
    request,             \* the arguments of the running product call (Optional)
    raw_offers,          \* _parse_offers: raw_offers, before the redirects
    product,             \* what parse_product returned (Optional Product)
    products,            \* the products collection of the database
    built_data,          \* the ArticleData a direct construction gave (Optional)
    calls,               \* the parse_news calls that run side by side (a bag)
    gates                \* the semaphores of the three parser instances

vars == <<pc, url, until_date, web, parser, page_urls, page_tasks,
          page_semaphore, all_articles, full_parse_articles, simple_news_items,
          full_news_items, batch_start, article_tasks, article_semaphore,
          result, raised, store, now, response, hist,
          request, raw_offers, product, products, built_data, calls, gates>>

\* the calls that share the parser instances
sharedVars == <<calls, gates>>

\* the state of the product side
productVars == <<request, raw_offers, product, products, built_data,
                 sharedVars>>

----------------------------------------------------------------------------
\* Bounds of the model.

\* The calendar day of "now" (ordinal, day 1 = 2025-08-01): 2025-09-01, so that
\* a date sweep crosses a month boundary.
Today == 32
\* How many days before Today a boundary date may lie in the content-rich runs.
MaxBack == 1
\* How many listing entries the site serves in total in the content-rich runs.
MaxStubs == 2
\* How many entries the bulk listing page has (more than the article gate).
BulkSize == 11
\* How many days back the load runs sweep (more pages than the page gate).
LoadBack == 5
\* How many listing pages of the load runs are not empty.
BulkPages == 1
\* How many entries beyond one batch the listing page of the batch runs has.
Overflow == 1

\* Program constants.
PageGate == 5
ArticleGate == 10
BatchSize == 20
MaxPages == 10
HourTicks == 2

----------------------------------------------------------------------------
\* Optional values and small helpers.

None == <<>>
Some(v) == <<v>>
IsNone(o) == Len(o) = 0
Get(o) == o[1]

Max(a, b) == IF a >= b THEN a ELSE b
Min(a, b) == IF a <= b THEN a ELSE b

RECURSIVE Flatten(_)
Flatten(ss) == IF Len(ss) = 0 THEN <<>> ELSE Head(ss) \o Flatten(Tail(ss))

\* s[i:j] of Python (0-based, j exclusive), for 0 <= i.
Slice(s, i, j) == SubSeq(s, i + 1, Min(j, Len(s)))

\* s.startswith(p) on piece sequences
StartsWith(s, p) == Len(s) >= Len(p) /\ SubSeq(s, 1, Len(p)) = p
EndsWith(s, p) == Len(s) >= Len(p) /\ SubSeq(s, Len(s) - Len(p) + 1, Len(s)) = p
\* `p in s` of Python strings: p occurs in s as a contiguous run
Contains(s, p) ==
    \E i \in 1..(Len(s) - Len(p) + 1) : SubSeq(s, i, i + Len(p) - 1) = p

DT(day, tick) == [d |-> day, t |-> tick]
\* datetime.now(timezone.utc)
NowDT == DT(Today, 1)
\* dt.date()
DateOf(dt) == dt.d

----------------------------------------------------------------------------
\* Urls as piece sequences.

Schemes == {"https://", "http://"}
BulkPaths == <<"/b01", "/b02", "/b03", "/b04", "/b05", "/b06", "/b07", "/b08",
               "/b09", "/b10", "/b11", "/b12", "/b13", "/b14", "/b15", "/b16",
               "/b17", "/b18", "/b19", "/b20", "/b21", "/b22", "/b23", "/b24">>
PathPieces == {"/news", "/uk/newsfeed", "/a1", "/a2", "/x1", "/?ref=",
               "/i.jpg", "/v.mp4"}
              \cup {BulkPaths[i] : i \in 1..Len(BulkPaths)}
\* the pieces that hold a '?'
QueryPieces == {"/?ref="}

\* url.startswith('http')
StartsWithHttp(u) == Len(u) > 0 /\ u[1] \in Schemes
\* url.startswith('//')
StartsWithSlashSlash(u) == Len(u) > 0 /\ u[1] = "//"
\* url.startswith('/')
StartsWithSlash(u) == Len(u) > 0 /\ (u[1] = "//" \/ u[1] \in PathPieces)

RECURSIVE UpToPath(_)
UpToPath(u) ==
    IF Len(u) = 0 \/ Head(u) \in PathPieces THEN <<>>
    ELSE <<Head(u)>> \o UpToPath(Tail(u))

\* urlparse(u).netloc.lower(): what stands between the scheme and the path
Netloc(u) ==
    IF Len(u) > 0 /\ u[1] \in (Schemes \cup {"//"}) THEN UpToPath(Tail(u)) ELSE <<>>

\* s.replace('www.', '')
ReplaceWww(s) == SelectSeq(s, LAMBDA x : x /= "www.")

\* '/'.join(base_url.split('/')[:3]): the scheme and the host of base_url
BaseOrigin(base) == <<Head(base)>> \o UpToPath(Tail(base))

\* BaseNewsParser._normalize_url
NormalizeUrl(u, base_url) ==
    IF StartsWithHttp(u) THEN u
    ELSE IF StartsWithSlashSlash(u) THEN <<"https:">> \o u
    ELSE IF StartsWithSlash(u) THEN BaseOrigin(base_url) \o u
    ELSE base_url \o <<"/">> \o u

\* PravdaNewsParser._normalize_pravda_url
NormalizePravdaUrl(u, base_url) ==
    IF StartsWithHttp(u) THEN u
    ELSE IF StartsWithSlash(u) THEN BaseOrigin(base_url) \o u
    ELSE base_url \o <<"/">> \o u

\* politeka: `if not url.startswith('http'): url = urljoin(base_url, url)`
NormalizePolitekaUrl(u, base_url) ==
    IF StartsWithHttp(u) THEN u
    ELSE IF StartsWithSlashSlash(u) THEN <<"https:">> \o u
    ELSE IF StartsWithSlash(u) THEN BaseOrigin(base_url) \o u
    ELSE BaseOrigin(base_url) \o <<"/">> \o u

ParserNames == {"pravda", "epravda", "politeka"}

\* self.base_url of each parser
BaseUrl(p) ==
    CASE p = "pravda" -> <<"https://", "www.", "pravda.com.ua">>
      [] p = "epravda" -> <<"https://", "e", "pravda.com.ua">>
      [] p = "politeka" -> <<"https://", "politeka.net">>

\* self.news_url of each parser
NewsUrl(p) ==
    CASE p = "pravda" -> BaseUrl(p) \o <<"/news">>
      [] p = "epravda" -> BaseUrl(p) \o <<"/news">>
      [] p = "politeka" -> BaseUrl(p) \o <<"/uk/newsfeed">>

\* _should_parse_full_content of pravda and epravda: same netloc, www. aside
SameDomain(source_url, article_url) ==
    ReplaceWww(Netloc(source_url)) = ReplaceWww(Netloc(article_url))

\* domain == 'politeka.net' or domain.endswith('.politeka.net')
IsPoliteka(domain) ==
    \/ domain = <<"politeka.net">>
    \/ EndsWith(domain, <<".", "politeka.net">>)

ShouldParseFullContent(p, source_url, article_url) ==
    IF p = "politeka"
    THEN /\ IsPoliteka(ReplaceWww(Netloc(source_url)))
         /\ IsPoliteka(ReplaceWww(Netloc(article_url)))
    ELSE SameDomain(source_url, article_url)

----------------------------------------------------------------------------
\* Dates.

\* date -> (year, month, day) on the calendar, day ordinal 1 being 2025-08-01
Ymd(n) ==
    IF n <= 0 THEN [y |-> 2025, m |-> 7, d |-> n + 31]
    ELSE IF n <= 31 THEN [y |-> 2025, m |-> 8, d |-> n]
    ELSE [y |-> 2025, m |-> 9, d |-> n - 31]

\* datetime(year, month, day): back to the ordinal
Ordinal(y, m, d) ==
    CASE m = 7 -> d - 31
      [] m = 8 -> d
      [] m = 9 -> d + 31

\* f"{self.news_url}/date_{date_str}/" with date_str = strftime("%d%m%Y")
DateUrl(day) ==
    [base |-> NewsUrl("epravda"), dd |-> Ymd(day).d, mm |-> Ymd(day).m,
     yyyy |-> Ymd(day).y]

\* a sweep that stops before the boundary day
RECURSIVE GenerateDateUrlsExclusive(_, _)
GenerateDateUrlsExclusive(current_date, end_date) ==
    IF current_date > end_date
    THEN <<DateUrl(current_date)>>
         \o GenerateDateUrlsExclusive(current_date - 1, end_date)
    ELSE <<>>

\* EpravdaNewsParser._generate_date_urls
RECURSIVE GenerateDateUrls(_, _)
GenerateDateUrls(current_date, end_date) ==
    IF current_date >= end_date
    THEN <<DateUrl(current_date)>> \o GenerateDateUrls(current_date - 1, end_date)
    ELSE <<>>

\* _extract_date_from_date_url: date_(\d{2})(\d{2})(\d{4}) read back
ExtractDateFromDateUrl(u) == Some(DT(Ordinal(u.yyyy, u.mm, u.dd), 0))

\* PolitekaNewsParser._generate_page_urls
GeneratePageUrls(base_url, max_pages) ==
    [n \in 1..max_pages |->
        IF n = 1 THEN [base |-> base_url, sep |-> "", page |-> 1]
        ELSE IF \E i \in 1..Len(base_url) : base_url[i] \in QueryPieces
             THEN [base |-> base_url, sep |-> "&page=", page |-> n]
             ELSE [base |-> base_url, sep |-> "?page=", page |-> n]]

\* a date check that lets every article through
IsDateValidLax(article_date, until) == TRUE

\* BaseNewsParser._is_date_valid
IsDateValid(article_date, until) ==
    IF IsNone(until) THEN TRUE
    ELSE IF IsNone(article_date) THEN TRUE
    ELSE DateOf(Get(article_date)) >= DateOf(Get(until))

\* PravdaNewsParser._combine_time_with_today
CombineTimeWithToday(time_str) ==
    IF IsNone(time_str) THEN Some(DT(Today, 0)) ELSE Some(DT(Today, Get(time_str)))

\* EpravdaNewsParser._combine_date_and_time
CombineDateAndTime(page_date, time_str) ==
    IF IsNone(page_date) THEN Some(NowDT)
    ELSE IF IsNone(time_str) THEN Some(DT(Get(page_date).d, 0))
    ELSE Some(DT(Get(page_date).d, Get(time_str)))

\* PolitekaNewsParser._parse_politeka_date: "HH:MM DD.MM", else now
ParsePolitekaDate(time_str, date_str) ==
    IF IsNone(time_str) \/ IsNone(date_str) THEN Some(NowDT)
    ELSE Some(DT(Get(date_str), Get(time_str)))

----------------------------------------------------------------------------
\* app/models/news.py

Ok(v) == [ok |-> TRUE, v |-> v]
Err(e) == [ok |-> FALSE, err |-> e]

\* v.strip() of a url: the blanks at its ends go
RECURSIVE StripLeft(_)
StripLeft(u) == IF Len(u) > 0 /\ Head(u) = " " THEN StripLeft(Tail(u)) ELSE u
RECURSIVE StripRight(_)
StripRight(u) ==
    IF Len(u) > 0 /\ u[Len(u)] = " " THEN StripRight(SubSeq(u, 1, Len(u) - 1))
    ELSE u
Strip(u) == StripRight(StripLeft(u))

\* one url of image_urls as validate_image_urls leaves it: a list of no or
\* one url
ValidImageUrl(raw) ==
    LET u == Strip(raw) IN
    IF Len(u) = 0 THEN <<>>
    ELSE IF StartsWithSlashSlash(u) THEN <<(<<"https://">> \o Tail(u))>>
    ELSE IF StartsWithSlash(u) THEN <<>>
    ELSE IF ~StartsWith(u, <<"https://">>) THEN <<(<<"https://">> \o u)>>
    ELSE <<u>>

\* a validate_image_urls that takes the list as it comes
ValidateImageUrlsKeep(v) == v

\* ArticleData.validate_image_urls
ValidateImageUrls(v) == Flatten([i \in 1..Len(v) |-> ValidImageUrl(v[i])])

\* ArticleData.validate_video_url; v is Optional
ValidateVideoUrl(v) ==
    IF IsNone(v) THEN None
    ELSE LET u == Strip(Get(v)) IN
         IF Len(u) = 0 THEN None
         ELSE IF StartsWithSlashSlash(u) THEN Some(<<"https://">> \o Tail(u))
         ELSE IF ~StartsWith(u, <<"https://">>) THEN Some(<<"https://">> \o u)
         ELSE Some(u)

\* ArticleData(...): the fields the pipeline sets
ArticleData(title, content_body, published_at, image_urls, video_url) ==
    [title |-> title, content_body |-> content_body,
     published_at |-> published_at,
     image_urls |-> ValidateImageUrls(image_urls),
     video_url |-> ValidateVideoUrl(video_url)]

\* NewsItem.validate_urls raises for a root-relative value
ValidateUrlsRaises(v) == ~StartsWith(v, <<"https://">>) /\ ~StartsWithSlashSlash(v)
                         /\ StartsWithSlash(v)

\* NewsItem.validate_urls otherwise
ValidateUrls(v) ==
    IF StartsWith(v, <<"https://">>) THEN v
    ELSE IF StartsWithSlashSlash(v) THEN <<"https:">> \o v
    ELSE <<"https://">> \o v

NewsItemRaises(source, u) == ValidateUrlsRaises(source) \/ ValidateUrlsRaises(u)

NewsItem(source, u, article_data) ==
    [source |-> ValidateUrls(source), url |-> ValidateUrls(u),
     article_data |-> article_data]

AllowedStatuses == {"success", "partial", "failed"}

\* a validator that keeps the total_items it is given
CalculateTotalItemsKeep(v, items) == v

\* NewsCollection.calculate_total_items: the items are validated before
\* total_items, so info.data holds them and the value passed in is dropped
CalculateTotalItems(v, items) == Len(items)

\* NewsCollection(source=..., items=..., total_items=..., parse_status=...,
\* error_message=...): the validated object, or the ValidationError
NewsCollection(source, items, total_items, parse_status, error_message) ==
    IF ~StartsWith(source, <<"https://">>)
    THEN Err("source must be a full URL")
    ELSE IF parse_status \notin AllowedStatuses
    THEN Err("parse_status must be one of the allowed")
    ELSE Ok([source |-> source, items |-> items,
             total_items |-> CalculateTotalItems(total_items, items),
             parse_status |-> parse_status, error_message |-> error_message])

----------------------------------------------------------------------------
\* app/services/news_service.py: the parser of a url

\* self.parsers, in insertion order
Parsers ==
    << [domain |-> <<"e", "pravda.com.ua">>, name |-> "epravda"],
       [domain |-> <<"pravda.com.ua">>, name |-> "pravda"],
       [domain |-> <<"politeka.net">>, name |-> "politeka"] >>

\* len() of a piece, in characters
PieceLen(x) ==
    CASE x = "e" -> 1
      [] x = "pravda.com.ua" -> 13
      [] x = "politeka.net" -> 12
      [] OTHER -> 0

RECURSIVE StrLen(_)
StrLen(s) == IF Len(s) = 0 THEN 0 ELSE PieceLen(Head(s)) + StrLen(Tail(s))

\* one piece of url.lower()
LowerPiece(x) ==
    CASE x = "Pravda.com.ua" -> "pravda.com.ua"
      [] x = "WWW." -> "www."
      [] OTHER -> x

Lower(u) == [i \in 1..Len(u) |-> LowerPiece(u[i])]

\* sorted(entries, key=len of the domain, reverse=True): stable, longest first
RECURSIVE InsertByLen(_, _)
InsertByLen(e, sorted) ==
    IF Len(sorted) = 0 THEN <<e>>
    ELSE IF StrLen(Head(sorted).domain) >= StrLen(e.domain)
         THEN <<Head(sorted)>> \o InsertByLen(e, Tail(sorted))
         ELSE <<e>> \o sorted

RECURSIVE SortedDomains(_)
SortedDomains(entries) ==
    IF Len(entries) = 0 THEN <<>>
    ELSE InsertByLen(entries[Len(entries)],
                     SortedDomains(SubSeq(entries, 1, Len(entries) - 1)))

\* a lookup that falls back to a default parser
RECURSIVE FirstMatchDefault(_, _)
FirstMatchDefault(sorted, url_lower) ==
    IF Len(sorted) = 0 THEN Some("pravda")
    ELSE IF Contains(url_lower, Head(sorted).domain) THEN Some(Head(sorted).name)
    ELSE FirstMatchDefault(Tail(sorted), url_lower)

RECURSIVE FirstMatch(_, _)
FirstMatch(sorted, url_lower) ==
    IF Len(sorted) = 0 THEN None
    ELSE IF Contains(url_lower, Head(sorted).domain) THEN Some(Head(sorted).name)
    ELSE FirstMatch(Tail(sorted), url_lower)

\* NewsService._get_parser_for_url
GetParserForUrl(u) == FirstMatch(SortedDomains(Parsers), Lower(u))

----------------------------------------------------------------------------
\* The listing pages.  The site answers a listing fetch with
\*   [kind |-> "absent"]       _get_content gives None (non-2xx, timeout, ...)
\*   [kind |-> "unparsable"]   markup on which the extraction raises
\*   [kind |-> "nocontainer"]  markup without the listing container
\*   [kind |-> "ok", entries |-> ...]  the container's entries that carry a
\*                             link and a long enough title, in document order:
\*       [href, title, time (Optional tick), date (Optional day), lead, img]

PageFaults == {"absent", "unparsable", "nocontainer"}

\* one entry of the container -> the article dict of _extract_articles_with_titles
\* (epravda's dict has no lead and no image_urls key; nothing reads them there)
ExtractArticle(p, e, page_date) ==
    CASE p = "pravda" ->
            [url |-> NormalizePravdaUrl(e.href, BaseUrl(p)), title |-> e.title,
             datetime |-> CombineTimeWithToday(e.time),
             lead |-> e.lead, image_urls |-> <<>>]
      [] p = "epravda" ->
            [url |-> NormalizeUrl(e.href, BaseUrl(p)), title |-> e.title,
             datetime |-> CombineDateAndTime(page_date, e.time),
             lead |-> "", image_urls |-> <<>>]
      [] p = "politeka" ->
            [url |-> NormalizePolitekaUrl(e.href, BaseUrl(p)), title |-> e.title,
             datetime |-> ParsePolitekaDate(e.time, e.date),
             lead |-> e.lead,
             image_urls |-> [i \in 1..Len(e.img) |->
                                NormalizePolitekaUrl(e.img[i], BaseUrl(p))]]

\* an extraction that takes entries from anywhere in the markup
ExtractArticlesWithTitlesLeaky(p, answer, page_date) ==
    [i \in 1..Len(answer.entries) |->
        ExtractArticle(p, answer.entries[i], page_date)]

\* _extract_articles_with_titles on markup that parses
ExtractArticlesWithTitles(p, answer, page_date) ==
    IF answer.kind = "nocontainer" THEN <<>>
    ELSE [i \in 1..Len(answer.entries) |->
             ExtractArticle(p, answer.entries[i], page_date)]

\* EpravdaNewsParser._fetch_single_date_page, after the fetch: every fault
\* ends in []
FetchSingleDatePage(date_url, answer) ==
    IF answer.kind = "absent" THEN <<>>
    ELSE IF answer.kind = "unparsable" THEN <<>>
    ELSE ExtractArticlesWithTitles("epravda", answer,
                                   ExtractDateFromDateUrl(date_url))

\* PolitekaNewsParser._fetch_single_page, after the fetch
FetchSinglePage(page_url, answer) ==
    IF answer.kind = "absent" THEN <<>>
    ELSE IF answer.kind = "unparsable" THEN <<>>
    ELSE ExtractArticlesWithTitles("politeka", answer, None)

\* `unique_articles` of parse_news: the first article of each url, in order
RECURSIVE Dedup(_, _)
Dedup(articles, seen_urls) ==
    IF Len(articles) = 0 THEN <<>>
    ELSE IF Head(articles).url \notin seen_urls
         THEN <<Head(articles)>> \o
              Dedup(Tail(articles), seen_urls \cup {Head(articles).url})
         ELSE Dedup(Tail(articles), seen_urls)

UniqueArticles(articles) == Dedup(articles, {})

\* `filtered_articles` of PravdaNewsParser.parse_news
FilteredArticles(articles, until) ==
    SelectSeq(articles, LAMBDA a : IsNone(until) \/ IsDateValid(a.datetime, until))

\* a boundary check that drops the old articles and keeps the ones after them
ValidPrefixSkipping(page_articles, until) ==
    SelectSeq(page_articles, LAMBDA a : IsDateValid(a.datetime, until))

\* PolitekaNewsParser._fetch_all_pages_async, the boundary check of one page:
\* the articles before the first one older than the boundary
RECURSIVE ValidPrefix(_, _)
ValidPrefix(page_articles, until) ==
    IF Len(page_articles) = 0 THEN <<>>
    ELSE IF IsDateValid(Head(page_articles).datetime, until)
         THEN <<Head(page_articles)>> \o ValidPrefix(Tail(page_articles), until)
         ELSE <<>>

----------------------------------------------------------------------------
\* The article pages.  The site answers an article fetch with
\*   [kind |-> "absent" | "unparsable" | "nocontainer"], or
\*   [kind |-> "ok", title, body, published (Optional datetime found in the
\*    page), images]

\* stub-only data that never carries a body
CreateSimpleArticleDataBare(p, article) ==
    ArticleData(article.title, "", article.datetime, <<>>, None)

\* _create_simple_article_data of each parser
CreateSimpleArticleData(p, article) ==
    CASE p = "pravda" ->
            ArticleData(article.title, article.lead, article.datetime, <<>>, None)
      [] p = "epravda" ->
            ArticleData(article.title, "", article.datetime, <<>>, None)
      [] p = "politeka" ->
            ArticleData(article.title, article.lead, article.datetime,
                        article.image_urls, None)

\* _parse_full_article of each parser: None on every fault
ParseFullArticle(p, answer) ==
    IF answer.kind /= "ok" THEN None
    ELSE Some(ArticleData(
            IF answer.title = "" THEN "no title" ELSE answer.title,
            answer.body,
            IF p = "epravda" \/ IsNone(answer.published)
            THEN Some(NowDT) ELSE answer.published,
            answer.images, None))

\* an article that keeps the time found in its own page
WithOwnTime(p, data, article) == data

\* the listing time written over the article's own
WithListingTime(p, data, article) ==
    IF p = "epravda" \/ ~IsNone(article.datetime)
    THEN [data EXCEPT !.published_at = article.datetime]
    ELSE data

\* _process_single_article, after the fetch: the task's result.  Nothing
\* escapes its try, so exc is never set.
ProcessSingleArticle(p, article, source_url, answer) ==
    LET full_article_data == ParseFullArticle(p, answer) IN
    IF IsNone(full_article_data) THEN [exc |-> FALSE, val |-> None]
    ELSE IF NewsItemRaises(source_url, article.url) THEN [exc |-> FALSE, val |-> None]
    ELSE [exc |-> FALSE,
          val |-> Some(NewsItem(source_url, article.url,
                    WithListingTime(p, Get(full_article_data), article)))]

\* _process_articles_batch, after gather: one result -> zero or one item
BatchItem(p, article, res, source_url, until) ==
    IF res.exc
    THEN IF p /= "epravda" \/ IsNone(until) \/ IsDateValid(article.datetime, until)
         THEN <<NewsItem(source_url, article.url,
                         CreateSimpleArticleData(p, article))>>
         ELSE <<>>
    ELSE IF ~IsNone(res.val)
    THEN IF p /= "epravda" \/ IsNone(until)
            \/ IsDateValid(Get(res.val).article_data.published_at, until)
         THEN <<Get(res.val)>>
         ELSE <<>>
    ELSE <<>>

BatchItems(p, articles_batch, results, source_url, until) ==
    Flatten([i \in 1..Len(articles_batch) |->
                BatchItem(p, articles_batch[i], results[i], source_url, until)])

\* _process_articles_async: the split by domain
FullParseArticles(p, articles, source_url) ==
    SelectSeq(articles, LAMBDA a : ShouldParseFullContent(p, source_url, a.url))

SimpleArticles(p, articles, source_url) ==
    SelectSeq(articles, LAMBDA a : ~ShouldParseFullContent(p, source_url, a.url))

\* _process_articles_async: one stub of the cheap path -> zero or one item
SimpleItem(p, article, source_url, until) ==
    IF p /= "epravda" \/ IsNone(until) \/ IsDateValid(article.datetime, until)
    THEN <<NewsItem(source_url, article.url, CreateSimpleArticleData(p, article))>>
    ELSE <<>>

SimpleNewsItems(p, simple_articles, source_url, until) ==
    Flatten([i \in 1..Len(simple_articles) |->
                SimpleItem(p, simple_articles[i], source_url, until)])

----------------------------------------------------------------------------
\* The environment: what the sites serve.

\* a host the source does not own, as listings link to it
ExtBase(p) ==
    CASE p = "pravda" -> <<"https://", "e", "pravda.com.ua">>
      [] p = "epravda" -> <<"https://", "www.", "pravda.com.ua">>
      [] p = "politeka" -> <<"https://", "other.example">>

\* a day before every boundary date of the content-rich runs
OldDay == Today - MaxBack - 1

Entry(href, title, time, date, lead) ==
    [href |-> href, title |-> title, time |-> time, date |-> date,
     lead |-> lead, img |-> <<>>]

\* the listing entries of the content-rich runs: the same article linked twice
\* (absolute and root-relative, with different titles and times), a link to
\* another site, an old article, an old link to another site
RichEntries(p) ==
    { Entry(BaseUrl(p) \o <<"/a1">>, "t1", Some(1), Some(Today), ""),
      Entry(<<"/a1">>, "t2", Some(0), Some(Today - MaxBack), "lead"),
      Entry(ExtBase(p) \o <<"/x1">>, "t3", None, None, "lead"),
      Entry(<<"/a2">>, "t4", Some(1), Some(OldDay), ""),
      Entry(ExtBase(p) \o <<"/x1">>, "t5", Some(0), Some(OldDay), "") }

\* the listing page of the load runs: BulkSize articles of the source's own site
BulkEntries(p) ==
    [i \in 1..BulkSize |->
        Entry(<<BulkPaths[i]>>, "t1", Some(1), Some(Today), "")]

\* the listing page of the batch runs: one batch of articles of the source's
\* own site and Overflow more
BatchEntries(p) ==
    [i \in 1..(BatchSize + Overflow) |->
        Entry(<<BulkPaths[i]>>, "t1", Some(1), Some(Today), "")]

\* the listing pages of the sweep runs: one link to another site, of today or
\* of an old day
SweepEntries(p) ==
    { <<Entry(ExtBase(p) \o <<"/x1">>, "t3", Some(1), Some(day), "lead")>> :
         day \in {Today, OldDay} }

SeqsUpTo(S, n) == UNION {[1..k -> S] : k \in 0..n}

OkPage(entries) == [kind |-> "ok", entries |-> entries]
\* a fault: no markup at all, or markup whose entries the extraction never
\* gets to return (it raises on the way, or they lie outside the container)
FaultPage(kind, entries) == [kind |-> kind, entries |-> entries]

StrayEntries(p) == <<Entry(BaseUrl(p) \o <<"/a1">>, "t1", Some(1), Some(Today), "")>>

\* what a listing fetch of parser p can bring
PageAnswers(p) ==
    IF web.mode = "rich"
    THEN {FaultPage("absent", <<>>), FaultPage("unparsable", StrayEntries(p)),
          FaultPage("nocontainer", StrayEntries(p))}
         \cup {OkPage(es) : es \in SeqsUpTo(RichEntries(p), web.left)}
    ELSE IF web.mode = "sweep"
    THEN {FaultPage("absent", <<>>), OkPage(<<>>)}
         \cup (IF web.left = 0 THEN {} ELSE {OkPage(es) : es \in SweepEntries(p)})
    ELSE {OkPage(<<>>)}
         \cup (IF web.left = 0 THEN {}
               ELSE IF web.mode = "load" THEN {OkPage(BulkEntries(p))}
               ELSE {OkPage(BatchEntries(p))})

OkArticle(published) ==
    [kind |-> "ok", title |-> "h1", body |-> "body", published |-> published,
     images |-> <<>>]
FaultArticle(kind) ==
    [kind |-> kind, title |-> "", body |-> "", published |-> None, images |-> <<>>]

\* what an article fetch can bring
ArticleAnswers ==
    IF web.mode = "rich"
    THEN {FaultArticle(k) : k \in PageFaults}
         \cup {OkArticle(None), OkArticle(Some(DT(OldDay, 1)))}
    ELSE {OkArticle(None)}

\* the urls parse_news is called with
RichUrls ==
    { NewsUrl("pravda"), NewsUrl("epravda"), NewsUrl("politeka"),
      <<"http://", "www.", "pravda.com.ua", "/news">>,
      <<"https://", "other.example", "/news">> }

RichUntils == {None} \cup {Some(DT(Today - k, 0)) : k \in (0 - 1)..MaxBack}

Task(st) == [st |-> st, res |-> <<>>, kind |-> ""]
ArticleTask(st) == [st |-> st, res |-> [exc |-> FALSE, val |-> None]]

\* the semaphores as the constructors of the parsers make them (the pravda
\* parser has no page_semaphore: its entry is never touched)
FullGates ==
    [p \in ParserNames |-> [page |-> PageGate, article |-> ArticleGate]]

\* no calls side by side
SharedAtRest ==
    /\ calls = EmptyBag
    /\ gates = FullGates

\* hist before anything happened: the stubs whose full parse failed, the
\* calls of a parser's parse_news, the calls of save_news_collection, the
\* article fetches that ended, what the offers query answered, and the offers
\* of the last save_product (a set of [url, offers])
NoHistory ==
    [full_failed |-> {}, parser_calls |-> 0, saves |-> 0, fetched |-> 0,
     offers_answer |-> None, saved_offers |-> {}]

InitWith(urls, untils, mode) ==
    /\ pc = "idle"
    /\ url \in urls
    /\ until_date \in untils
    /\ web = [mode |-> mode,
              left |-> CASE mode = "rich" -> MaxStubs
                         [] mode = "sweep" -> MaxPages + Overflow
                         [] OTHER -> BulkPages]
    /\ parser = None
    /\ page_urls = <<>>
    /\ page_tasks = <<>>
    /\ page_semaphore = PageGate
    /\ all_articles = <<>>
    /\ full_parse_articles = <<>>
    /\ simple_news_items = <<>>
    /\ full_news_items = <<>>
    /\ batch_start = 0
    /\ article_tasks = <<>>
    /\ article_semaphore = ArticleGate
    /\ result = None
    /\ raised = None
    /\ store = <<>>
    /\ now = 2 * HourTicks
    /\ response = None
    /\ hist = NoHistory
    /\ request = None
    /\ raw_offers = <<>>
    /\ product = None
    /\ products = <<>>
    /\ built_data = None
    /\ SharedAtRest

Init == InitWith(RichUrls, RichUntils, "rich")

InitLoad ==
    InitWith({NewsUrl(p) : p \in ParserNames},
             {None, Some(DT(Today - LoadBack, 0))}, "load")

----------------------------------------------------------------------------
\* parse_news of the three parsers: the end of the call.

\* a handler that drops the fault text
FailedCollectionMute(source, e) == NewsCollection(source, <<>>, 0, "failed", None)

\* the `except Exception as e` handler of parse_news: the failed collection is
\* built there, outside any try
FailedCollection(source, e) == NewsCollection(source, <<>>, 0, "failed", Some(e))

\* the `return NewsCollection(... parse_status="success")` of parse_news
SuccessCollection(source, items) ==
    NewsCollection(source, items, Len(items), "success", None)

\* what parse_news gives for the outcome of its try block: the block's value,
\* else the handler's value, else the handler's own exception
ParseNewsOutcome(source, attempt) ==
    IF attempt.ok THEN attempt ELSE FailedCollection(source, attempt.err)

\* the parser's call ends: a collection goes back to the service, or the
\* exception does (the service re-raises it)
Finish(attempt) ==
    LET outcome == ParseNewsOutcome(url, attempt) IN
    IF outcome.ok
    THEN /\ result' = Some(outcome.v)
         /\ raised' = raised
         /\ pc' = "parsed"
    ELSE /\ result' = result
         /\ raised' = Some(outcome.err)
         /\ pc' = "raised"

\* the stubs of the cheap path whose NewsItem is built
SimpleBuilt(p, simple_articles, until) ==
    SelectSeq(simple_articles,
              LAMBDA a : p /= "epravda" \/ IsNone(until)
                         \/ IsDateValid(a.datetime, until))

\* articles_batch of the batch that starts after `start` articles
BatchOf(articles, start) == Slice(articles, start, start + BatchSize)

\* _process_articles_async up to its first await, and the return of
\* parse_news when there is nothing to await
StartProcessArticles(p, articles) ==
    LET full == FullParseArticles(p, articles, url)
        simple == SimpleArticles(p, articles, url)
        built == SimpleBuilt(p, simple, until_date)
    IN
    IF Len(articles) = 0
    THEN /\ Finish(SuccessCollection(url, <<>>))
         /\ UNCHANGED <<full_parse_articles, simple_news_items, full_news_items,
                        batch_start, article_tasks>>
    ELSE IF \E i \in 1..Len(built) : NewsItemRaises(url, built[i].url)
    THEN /\ Finish(Err("url must be a full URL"))
         /\ UNCHANGED <<full_parse_articles, simple_news_items, full_news_items,
                        batch_start, article_tasks>>
    ELSE /\ full_parse_articles' = full
         /\ simple_news_items' = SimpleNewsItems(p, simple, url, until_date)
         /\ full_news_items' = <<>>
         /\ batch_start' = 0
         /\ IF Len(full) = 0
            THEN /\ Finish(SuccessCollection(url, SimpleNewsItems(p, simple, url, until_date)))
                 /\ article_tasks' = article_tasks
            ELSE /\ article_tasks' = [i \in 1..Len(BatchOf(full, 0)) |-> ArticleTask("wait")]
                 /\ pc' = "articles"
                 /\ UNCHANGED <<result, raised>>

----------------------------------------------------------------------------
\* NewsService.parse_news, first half: the parser of the url, or ValueError

ServiceParseNews ==
    /\ pc = "idle"
    /\ LET found == GetParserForUrl(url) IN
       IF IsNone(found)
       THEN /\ raised' = Some("ValueError")
            /\ pc' = "raised"
            /\ UNCHANGED <<parser, hist>>
       ELSE /\ parser' = found
            /\ pc' = "start"
            /\ hist' = [hist EXCEPT !.parser_calls = @ + 1]
            /\ raised' = raised
    /\ UNCHANGED <<url, until_date, web, page_urls, page_tasks, page_semaphore,
                   all_articles, full_parse_articles, simple_news_items,
                   full_news_items, batch_start, article_tasks,
                   article_semaphore, result, store, now, response,
                   productVars>>

\* the sets of variables the steps of one phase leave alone
callVars == <<url, until_date, parser, store, now, response, productVars>>
articleVars == <<full_parse_articles, simple_news_items, full_news_items,
                 batch_start, article_tasks, article_semaphore>>

\* the site's stock of entries after it served a page
Served(answer) ==
    IF answer.kind /= "ok" THEN web
    ELSE IF web.mode = "rich"
    THEN [web EXCEPT !.left = @ - Len(answer.entries)]
    ELSE [web EXCEPT !.left = @ - (IF Len(answer.entries) > 0 THEN 1 ELSE 0)]

----------------------------------------------------------------------------
\* PravdaNewsParser.parse_news

\* up to `await self._get_content(url, client)`: no gate is taken
PravdaStart ==
    /\ pc = "start"
    /\ parser = Some("pravda")
    /\ page_urls' = <<url>>
    /\ page_tasks' = <<Task("fetch")>>
    /\ pc' = "pages"
    /\ UNCHANGED <<callVars, articleVars, web, page_semaphore, all_articles,
                   result, raised, hist>>

\* the listing arrives: extraction, date filter, the cheap items, and either
\* the return or the first batch of article tasks
\* (the error texts stand for the code's: the message of line 58, the str(e)
\* of whatever the extraction raised)
PravdaListingDone(answer) ==
    /\ pc = "pages"
    /\ parser = Some("pravda")
    /\ page_tasks[1].st = "fetch"
    /\ web' = Served(answer)
    /\ LET articles == ExtractArticlesWithTitles("pravda", answer, None) IN
       /\ page_tasks' = <<[st |-> "done", kind |-> answer.kind,
                           res |-> IF answer.kind \in {"absent", "unparsable"}
                                   THEN <<>> ELSE articles]>>
       /\ IF answer.kind = "absent"
          THEN /\ Finish(NewsCollection(url, <<>>, 0, "failed",
                                        Some("failed to get page content")))
               /\ UNCHANGED <<all_articles, articleVars>>
          ELSE IF answer.kind = "unparsable"
          THEN /\ Finish(Err("markup fault"))
               /\ UNCHANGED <<all_articles, articleVars>>
          ELSE /\ all_articles' = articles
               /\ IF Len(articles) = 0
                  THEN /\ Finish(NewsCollection(url, <<>>, 0, "success", None))
                       /\ UNCHANGED articleVars
                  ELSE /\ StartProcessArticles("pravda",
                                FilteredArticles(articles, until_date))
                       /\ article_semaphore' = article_semaphore
    /\ UNCHANGED <<callVars, page_urls, page_semaphore, hist>>

----------------------------------------------------------------------------
\* The listing pages of EpravdaNewsParser and PolitekaNewsParser

\* the first task, in creation order, that has a given standing
FirstAt(tasks, st) ==
    IF \E i \in 1..Len(tasks) : tasks[i].st = st
    THEN Some(CHOOSE i \in 1..Len(tasks) :
                 /\ tasks[i].st = st
                 /\ \A j \in 1..(i - 1) : tasks[j].st /= st)
    ELSE None

AllDone(tasks) == \A i \in 1..Len(tasks) : tasks[i].st = "done"

\* EpravdaNewsParser.parse_news up to the gather of the date pages
EpravdaStart ==
    /\ pc = "start"
    /\ parser = Some("epravda")
    /\ LET start_date == Today
           end_date == IF IsNone(until_date) THEN start_date
                       ELSE DateOf(Get(until_date))
           date_urls == GenerateDateUrls(start_date, end_date)
       IN /\ page_urls' = date_urls
          /\ page_tasks' = [i \in 1..Len(date_urls) |-> Task("wait")]
    /\ pc' = "pages"
    /\ UNCHANGED <<callVars, articleVars, web, page_semaphore, all_articles,
                   result, raised, hist>>

\* PolitekaNewsParser.parse_news up to the first page of the loop
PolitekaStart ==
    /\ pc = "start"
    /\ parser = Some("politeka")
    /\ page_urls' = GeneratePageUrls(url, MaxPages)
    /\ page_tasks' = [i \in 1..MaxPages |->
                         IF i = 1 THEN Task("wait") ELSE Task("idle")]
    /\ pc' = "pages"
    /\ UNCHANGED <<callVars, articleVars, web, page_semaphore, all_articles,
                   result, raised, hist>>

\* `async with self.page_semaphore`: the longest waiter enters when a permit
\* is free
PageAcquire ==
    /\ pc = "pages"
    /\ parser \in {Some("epravda"), Some("politeka")}
    /\ ~IsNone(FirstAt(page_tasks, "wait"))
    /\ page_semaphore > 0
    /\ page_semaphore' = page_semaphore - 1
    /\ page_tasks' = [page_tasks EXCEPT ![Get(FirstAt(page_tasks, "wait"))].st = "fetch"]
    /\ UNCHANGED <<callVars, articleVars, pc, web, page_urls, all_articles,
                   result, raised, hist>>

\* _fetch_single_date_page from the arrival of the page to the release
EpravdaPageDone(i, answer) ==
    /\ pc = "pages"
    /\ parser = Some("epravda")
    /\ i \in 1..Len(page_tasks)
    /\ page_tasks[i].st = "fetch"
    /\ web' = Served(answer)
    /\ page_tasks' = [page_tasks EXCEPT ![i] =
                         [st |-> "done", kind |-> answer.kind,
                          res |-> FetchSingleDatePage(page_urls[i], answer)]]
    /\ page_semaphore' = page_semaphore + 1
    /\ UNCHANGED <<callVars, articleVars, pc, page_urls, all_articles,
                   result, raised, hist>>

\* the gather of the date pages returns: the pages' stubs in page order, the
\* duplicates dropped, and _process_articles_async up to its first await
EpravdaPagesJoin ==
    /\ pc = "pages"
    /\ parser = Some("epravda")
    /\ AllDone(page_tasks)
    /\ all_articles' = Flatten([i \in 1..Len(page_tasks) |-> page_tasks[i].res])
    /\ StartProcessArticles("epravda", UniqueArticles(all_articles'))
    /\ UNCHANGED <<callVars, web, page_urls, page_tasks, page_semaphore,
                   article_semaphore, hist>>

\* a loop that goes on to the next page after a page without stubs
PolitekaPageDoneKeepsOn(answer) ==
    /\ pc = "pages"
    /\ parser = Some("politeka")
    /\ ~IsNone(FirstAt(page_tasks, "fetch"))
    /\ web' = Served(answer)
    /\ page_semaphore' = page_semaphore + 1
    /\ LET i == Get(FirstAt(page_tasks, "fetch"))
           page_articles == FetchSinglePage(page_urls[i], answer)
           valid_articles == IF IsNone(until_date) THEN page_articles
                             ELSE ValidPrefix(page_articles, until_date)
           should_stop == Len(valid_articles) < Len(page_articles)
           done == [page_tasks EXCEPT ![i] =
                       [st |-> "done", kind |-> answer.kind, res |-> page_articles]]
       IN /\ all_articles' = all_articles \o valid_articles
          /\ IF should_stop \/ i = Len(page_urls)
             THEN /\ page_tasks' = done
                  /\ StartProcessArticles("politeka", UniqueArticles(all_articles'))
             ELSE /\ page_tasks' = [done EXCEPT ![i + 1].st = "wait"]
                  /\ UNCHANGED <<pc, result, raised, full_parse_articles,
                                 simple_news_items, full_news_items, batch_start,
                                 article_tasks>>
    /\ UNCHANGED <<callVars, page_urls, article_semaphore, hist>>

\* one turn of the loop of _fetch_all_pages_async, from the arrival of the page:
\* the release, the end-of-listing and boundary checks, then the next page or
\* the rest of parse_news up to its next await
PolitekaPageDone(answer) ==
    /\ pc = "pages"
    /\ parser = Some("politeka")
    /\ ~IsNone(FirstAt(page_tasks, "fetch"))
    /\ web' = Served(answer)
    /\ page_semaphore' = page_semaphore + 1
    /\ LET i == Get(FirstAt(page_tasks, "fetch"))
           page_articles == FetchSinglePage(page_urls[i], answer)
           valid_articles == IF IsNone(until_date) THEN page_articles
                             ELSE ValidPrefix(page_articles, until_date)
           should_stop == Len(valid_articles) < Len(page_articles)
           done == [page_tasks EXCEPT ![i] =
                       [st |-> "done", kind |-> answer.kind, res |-> page_articles]]
       IN /\ all_articles' = all_articles \o valid_articles
          /\ IF Len(page_articles) = 0 \/ should_stop \/ i = Len(page_urls)
             THEN /\ page_tasks' = done
                  /\ StartProcessArticles("politeka", UniqueArticles(all_articles'))
             ELSE /\ page_tasks' = [done EXCEPT ![i + 1].st = "wait"]
                  /\ UNCHANGED <<pc, result, raised, full_parse_articles,
                                 simple_news_items, full_news_items, batch_start,
                                 article_tasks>>
    /\ UNCHANGED <<callVars, page_urls, article_semaphore, hist>>

----------------------------------------------------------------------------
\* The article pages, the same in the three parsers

\* an article task that starts its fetch without a permit
ArticleAcquireUngated ==
    /\ pc = "articles"
    /\ ~IsNone(FirstAt(article_tasks, "wait"))
    /\ article_semaphore' = article_semaphore - 1
    /\ article_tasks' = [article_tasks EXCEPT
                            ![Get(FirstAt(article_tasks, "wait"))].st = "fetch"]
    /\ UNCHANGED <<callVars, pc, web, page_urls, page_tasks, page_semaphore,
                   all_articles, full_parse_articles, simple_news_items,
                   full_news_items, batch_start, result, raised, hist>>

\* `async with self.article_semaphore`
ArticleAcquire ==
    /\ pc = "articles"
    /\ ~IsNone(FirstAt(article_tasks, "wait"))
    /\ article_semaphore > 0
    /\ article_semaphore' = article_semaphore - 1
    /\ article_tasks' = [article_tasks EXCEPT
                            ![Get(FirstAt(article_tasks, "wait"))].st = "fetch"]
    /\ UNCHANGED <<callVars, pc, web, page_urls, page_tasks, page_semaphore,
                   all_articles, full_parse_articles, simple_news_items,
                   full_news_items, batch_start, result, raised, hist>>

\* an article task that gives its permit back only when the article parsed
ArticleDoneKeepsPermit(i, answer) ==
    /\ pc = "articles"
    /\ i \in 1..Len(article_tasks)
    /\ article_tasks[i].st = "fetch"
    /\ LET article == BatchOf(full_parse_articles, batch_start)[i]
           res == ProcessSingleArticle(Get(parser), article, url, answer)
       IN /\ article_tasks' = [article_tasks EXCEPT ![i] =
                                  [st |-> "done", res |-> res]]
          /\ hist' = [hist EXCEPT
                        !.fetched = @ + 1,
                        !.full_failed = IF IsNone(res.val)
                                        THEN @ \cup {article.url} ELSE @]
          /\ article_semaphore' = IF IsNone(res.val) THEN article_semaphore
                                  ELSE article_semaphore + 1
    /\ UNCHANGED <<callVars, pc, web, page_urls, page_tasks, page_semaphore,
                   all_articles, full_parse_articles, simple_news_items,
                   full_news_items, batch_start, result, raised>>

\* _process_single_article from the arrival of the page to the release
ArticleDone(i, answer) ==
    /\ pc = "articles"
    /\ i \in 1..Len(article_tasks)
    /\ article_tasks[i].st = "fetch"
    /\ LET article == BatchOf(full_parse_articles, batch_start)[i]
           res == ProcessSingleArticle(Get(parser), article, url, answer)
       IN /\ article_tasks' = [article_tasks EXCEPT ![i] =
                                  [st |-> "done", res |-> res]]
          /\ hist' = [hist EXCEPT
                        !.fetched = @ + 1,
                        !.full_failed = IF IsNone(res.val)
                                        THEN @ \cup {article.url} ELSE @]
    /\ article_semaphore' = article_semaphore + 1
    /\ UNCHANGED <<callVars, pc, web, page_urls, page_tasks, page_semaphore,
                   all_articles, full_parse_articles, simple_news_items,
                   full_news_items, batch_start, result, raised>>

\* a loop that goes on to the next batch once every task of the batch has
\* started its fetch
BatchJoinEager ==
    /\ pc = "articles"
    /\ IsNone(FirstAt(article_tasks, "wait"))
    /\ LET batch == BatchOf(full_parse_articles, batch_start)
           results == [i \in 1..Len(article_tasks) |-> article_tasks[i].res]
           items == BatchItems(Get(parser), batch, results, url, until_date)
       IN /\ full_news_items' = full_news_items \o items
          /\ IF batch_start + BatchSize < Len(full_parse_articles)
             THEN /\ batch_start' = batch_start + BatchSize
                  /\ article_tasks' =
                        [i \in 1..Len(BatchOf(full_parse_articles, batch_start')) |->
                            ArticleTask("wait")]
                  /\ UNCHANGED <<pc, result, raised>>
             ELSE /\ Finish(SuccessCollection(url, simple_news_items \o full_news_items'))
                  /\ UNCHANGED <<batch_start, article_tasks>>
    /\ UNCHANGED <<callVars, web, page_urls, page_tasks, page_semaphore,
                   all_articles, full_parse_articles, simple_news_items,
                   article_semaphore, hist>>

\* the gather of a batch returns: its items, then the next batch or the
\* return of parse_news
BatchJoin ==
    /\ pc = "articles"
    /\ AllDone(article_tasks)
    /\ LET batch == BatchOf(full_parse_articles, batch_start)
           results == [i \in 1..Len(article_tasks) |-> article_tasks[i].res]
           items == BatchItems(Get(parser), batch, results, url, until_date)
       IN /\ full_news_items' = full_news_items \o items
          /\ IF batch_start + BatchSize < Len(full_parse_articles)
             THEN /\ batch_start' = batch_start + BatchSize
                  /\ article_tasks' =
                        [i \in 1..Len(BatchOf(full_parse_articles, batch_start')) |->
                            ArticleTask("wait")]
                  /\ UNCHANGED <<pc, result, raised>>
             ELSE /\ Finish(SuccessCollection(url, simple_news_items \o full_news_items'))
                  /\ UNCHANGED <<batch_start, article_tasks>>
    /\ UNCHANGED <<callVars, web, page_urls, page_tasks, page_semaphore,
                   all_articles, full_parse_articles, simple_news_items,
                   article_semaphore, hist>>

----------------------------------------------------------------------------
\* app/repositories/news_repository.py

\* collection_dict: model_dump() of the collection with parsed_at set
Document(coll, t) ==
    [source |-> coll.source, items |-> coll.items, total_items |-> coll.total_items,
     parse_status |-> coll.parse_status, error_message |-> coll.error_message,
     parsed_at |-> t]

\* NewsCollection.model_validate(document)
ModelValidate(doc) ==
    NewsCollection(doc.source, doc.items, doc.total_items, doc.parse_status,
                   doc.error_message)

\* the filter of replace_one: same source, parsed within the last hour
InWindow(doc, source, t) == doc.source = source /\ doc.parsed_at >= t - HourTicks

\* a save that never looks for a stored document
SaveNewsCollectionInsertOnly(docs, coll, t) ==
    Append(docs, [source |-> coll.source, items |-> coll.items,
                  total_items |-> coll.total_items,
                  parse_status |-> coll.parse_status,
                  error_message |-> coll.error_message, parsed_at |-> t])

\* save_news_collection on a database that answers: the first document of the
\* filter is replaced, else the new one is inserted; a replacement that
\* changes nothing is followed by insert_one
SaveNewsCollection(docs, coll, t) ==
    LET new == Document(coll, t)
        hits == {i \in 1..Len(docs) : InWindow(docs[i], coll.source, t)}
    IN IF hits = {} THEN Append(docs, new)
       ELSE LET i == CHOOSE k \in hits : \A j \in hits : k <= j IN
            IF docs[i] = new THEN Append(docs, new)
            ELSE [docs EXCEPT ![i] = new]

\* a service that stores only what a parser brought home: a failed collection
\* is returned unsaved
ServiceSaveSkippingFailed(db) ==
    /\ pc = "parsed"
    /\ IF Get(result).parse_status = "failed"
       THEN /\ pc' = "returned"
            /\ UNCHANGED <<store, hist, raised>>
       ELSE /\ hist' = [hist EXCEPT !.saves = @ + 1]
            /\ IF db = "ok"
               THEN /\ store' = SaveNewsCollection(store, Get(result), now)
                    /\ pc' = "returned"
                    /\ raised' = raised
               ELSE /\ store' = store
                    /\ pc' = "raised"
                    /\ raised' = Some("database fault")
    /\ UNCHANGED <<url, until_date, parser, now, response, web, page_urls,
                   page_tasks, page_semaphore, all_articles, articleVars, result,
                   productVars>>

\* NewsService.parse_news, second half: the collection is saved and returned;
\* a database fault leaves save_news_collection and the service as it is
ServiceSave(db) ==
    /\ pc = "parsed"
    /\ hist' = [hist EXCEPT !.saves = @ + 1]
    /\ IF db = "ok"
       THEN /\ store' = SaveNewsCollection(store, Get(result), now)
            /\ pc' = "returned"
            /\ raised' = raised
       ELSE /\ store' = store
            /\ pc' = "raised"
            /\ raised' = Some("database fault")
    /\ UNCHANGED <<url, until_date, parser, now, response, web, page_urls,
                   page_tasks, page_semaphore, all_articles, articleVars, result,
                   productVars>>

\* sort("parsed_at", -1): newest first, stable
RECURSIVE InsertByParsedAt(_, _)
InsertByParsedAt(doc, sorted) ==
    IF Len(sorted) = 0 THEN <<doc>>
    ELSE IF Head(sorted).parsed_at >= doc.parsed_at
         THEN <<Head(sorted)>> \o InsertByParsedAt(doc, Tail(sorted))
         ELSE <<doc>> \o sorted

RECURSIVE NewestFirst(_)
NewestFirst(docs) ==
    IF Len(docs) = 0 THEN <<>>
    ELSE InsertByParsedAt(docs[Len(docs)], NewestFirst(SubSeq(docs, 1, Len(docs) - 1)))

\* the `except Exception as e` of a lookup: a collection with status "error"
ErrorCollection(source, e) == NewsCollection(source, <<>>, 0, "error", Some(e))

LookupOutcome(source, attempt) ==
    IF attempt.ok THEN attempt ELSE ErrorCollection(source, attempt.err)

\* get_news_by_source
GetNewsBySource(docs, source, limit, offset) ==
    LET found == SelectSeq(NewestFirst(docs), LAMBDA d : d.source = source)
        attempt ==
            IF Len(found) = 0
            THEN NewsCollection(source, <<>>, 0, "not_found", None)
            ELSE LET validated == ModelValidate(found[1]) IN
                 IF ~validated.ok THEN validated
                 ELSE IF offset > 0 \/ limit < Len(validated.v.items)
                 THEN LET page == Slice(validated.v.items, offset, offset + limit) IN
                      Ok([validated.v EXCEPT !.items = page,
                                             !.total_items = Len(page)])
                 ELSE validated
    IN LookupOutcome(source, attempt)

\* the items of the documents that validate, newest document first
ItemsOf(docs) ==
    Flatten([i \in 1..Len(docs) |->
                IF ModelValidate(docs[i]).ok THEN ModelValidate(docs[i]).v.items
                ELSE <<>>])

\* get_news_by_date_range; source is Optional
GetNewsByDateRange(docs, start_date, end_date, source, limit, offset) ==
    LET found == SelectSeq(NewestFirst(docs),
                    LAMBDA d : /\ d.parsed_at >= start_date
                               /\ d.parsed_at <= end_date
                               /\ (IsNone(source) \/ d.source = Get(source)))
        all_items == ItemsOf(found)
        combined_source == IF IsNone(source) THEN <<"multiple_sources">>
                           ELSE Get(source)
        total_items == Len(all_items)
    IN LookupOutcome(combined_source,
            NewsCollection(combined_source, Slice(all_items, offset, offset + limit),
                           total_items,
                           IF total_items > 0 THEN "success" ELSE "no_data", None))

\* `query.lower() in text.lower()`; the texts of the model are atoms, so a
\* query names a whole text
Matches(query, item) ==
    \/ item.article_data.title = query
    \/ item.article_data.content_body = query

\* search_news; source is Optional
SearchNews(docs, query, source, limit, offset) ==
    LET found == SelectSeq(NewestFirst(docs),
                    LAMBDA d : /\ \E i \in 1..Len(d.items) : Matches(query, d.items[i])
                               /\ (IsNone(source) \/ d.source = Get(source)))
        all_items == SelectSeq(ItemsOf(found), LAMBDA it : Matches(query, it))
        combined_source == IF IsNone(source) THEN <<"search_results">>
                           ELSE Get(source)
        total_items == Len(all_items)
    IN LookupOutcome(combined_source,
            NewsCollection(combined_source, Slice(all_items, offset, offset + limit),
                           total_items,
                           IF total_items > 0 THEN "success" ELSE "no_results", None))

\* the arguments the lookups are called with; one lookup follows a call, as
\* a lookup changes nothing a later one reads
LookupSources == {None, Some(url)}
\* <<limit, offset>>: the defaults, and the second page of pages of one
LookupPages == {<<50, 0>>, <<1, 1>>}
LookupRanges == {<<0, now>>, <<now + 1, now + 2>>}
LookupQueries == {"t1", "body"}

lookupFrame == <<pc, url, until_date, web, parser, page_urls, page_tasks,
                 page_semaphore, all_articles, articleVars, result, raised,
                 store, now, hist, productVars>>

LookupBySource(limit, offset) ==
    /\ pc \in {"returned", "raised"}
    /\ IsNone(response)
    /\ response' = Some([op |-> "get_news_by_source",
                          out |-> GetNewsBySource(store, url, limit, offset)])
    /\ UNCHANGED lookupFrame

LookupByDateRange(range, source, limit, offset) ==
    /\ pc = "returned"
    /\ IsNone(response)
    /\ response' = Some([op |-> "get_news_by_date_range",
                          out |-> GetNewsByDateRange(store, range[1], range[2],
                                                     source, limit, offset)])
    /\ UNCHANGED lookupFrame

LookupSearch(query, source, limit, offset) ==
    /\ pc = "returned"
    /\ IsNone(response)
    /\ response' = Some([op |-> "search_news",
                          out |-> SearchNews(store, query, source, limit, offset)])
    /\ UNCHANGED lookupFrame

----------------------------------------------------------------------------
Next ==
    \/ ServiceParseNews
    \/ PravdaStart
    \/ \E answer \in PageAnswers("pravda") : PravdaListingDone(answer)
    \/ EpravdaStart
    \/ PolitekaStart
    \/ PageAcquire
    \/ \E i \in 1..Len(page_tasks), answer \in PageAnswers("epravda") :
          EpravdaPageDone(i, answer)
    \/ EpravdaPagesJoin
    \/ \E answer \in PageAnswers("politeka") : PolitekaPageDone(answer)
    \/ ArticleAcquire
    \/ \E i \in 1..Len(article_tasks), answer \in ArticleAnswers :
          ArticleDone(i, answer)
    \/ BatchJoin
    \/ \E db \in {"ok", "fault"} : ServiceSave(db)
    \/ \E page \in LookupPages : LookupBySource(page[1], page[2])
    \/ \E range \in LookupRanges, source \in LookupSources, page \in LookupPages :
          LookupByDateRange(range, source, page[1], page[2])
    \/ \E query \in LookupQueries, source \in LookupSources, page \in LookupPages :
          LookupSearch(query, source, page[1], page[2])

\* the content-rich runs
Spec == Init /\ [][Next]_vars

\* the load runs
SpecLoad == InitLoad /\ [][Next]_vars

\* the batch runs: a listing of more than one batch, no boundary date
InitBatch == InitWith({NewsUrl(p) : p \in ParserNames}, {None}, "batch")

\* the article fetches whose page may arrive next in the batch runs: the one
\* that started first, and once every task of the batch has started also the
\* one that started last
ArticleArrivals ==
    LET fetching == {i \in 1..Len(article_tasks) : article_tasks[i].st = "fetch"}
    IN {i \in fetching : \/ \A j \in fetching : i <= j
                         \/ /\ IsNone(FirstAt(article_tasks, "wait"))
                            /\ \A j \in fetching : j <= i}

NextBatch ==
    \/ ServiceParseNews
    \/ PravdaStart
    \/ \E answer \in PageAnswers("pravda") : PravdaListingDone(answer)
    \/ EpravdaStart
    \/ PolitekaStart
    \/ PageAcquire
    \/ \E i \in 1..Len(page_tasks), answer \in PageAnswers("epravda") :
          EpravdaPageDone(i, answer)
    \/ EpravdaPagesJoin
    \/ \E answer \in PageAnswers("politeka") : PolitekaPageDone(answer)
    \/ ArticleAcquire
    \/ \E i \in ArticleArrivals, answer \in ArticleAnswers : ArticleDone(i, answer)
    \/ BatchJoin
    \/ \E db \in {"ok", "fault"} : ServiceSave(db)

SpecBatch == InitBatch /\ [][NextBatch]_vars

\* the sweep runs: politeka, a site with more listing pages than the sweep
\* asks for
InitSweep ==
    InitWith({NewsUrl("politeka"), NewsUrl("politeka") \o <<"/?ref=">>},
             {None, Some(DT(Today, 0))}, "sweep")

NextSweep ==
    \/ ServiceParseNews
    \/ PolitekaStart
    \/ PageAcquire
    \/ \E answer \in PageAnswers("politeka") : PolitekaPageDone(answer)
    \/ \E db \in {"ok", "fault"} : ServiceSave(db)

SpecSweep == InitSweep /\ [][NextSweep]_vars

----------------------------------------------------------------------------
\* What the claims speak of.

\* the parser's parse_news has returned a collection
ParserReturned == ~IsNone(result)

\* the items of the returned collection
ReturnedItems == IF ParserReturned THEN Get(result).items ELSE <<>>

\* the first stub of `articles` with the url u
FirstStub(articles, u) ==
    articles[CHOOSE i \in 1..Len(articles) :
                /\ articles[i].url = u
                /\ \A j \in 1..(i - 1) : articles[j].url /= u]

HasItemFor(u) == \E i \in 1..Len(ReturnedItems) : ReturnedItems[i].url = u

----------------------------------------------------------------------------
\* C1.  The items of the collection parse_news returns hold each article url
\* at most once, and the item kept for a url carries the listing time of the
\* first stub with that url, for the three parsers.  PravdaNewsParser has no
\* dedup step: TLC finds a returned collection with the same url twice.
C1_UrlsUniqueFirstKept ==
    ParserReturned =>
        /\ \A i, j \in 1..Len(ReturnedItems) :
              ReturnedItems[i].url = ReturnedItems[j].url => i = j
        /\ \A i \in 1..Len(ReturnedItems) :
              ReturnedItems[i].article_data.published_at =
                  FirstStub(all_articles, ReturnedItems[i].url).datetime

\* C2.  A stub sent to the full parse whose article page is absent, lacks its
\* container or cannot be parsed still has an item in the returned collection.
\* _process_single_article returns None for it and the batch drops None.
C2_FailedFullParseKeepsItem ==
    ParserReturned => \A u \in hist.full_failed : HasItemFor(u)

\* the fetches that hold a connection at this moment
ArticleFetchesInFlight ==
    Cardinality({i \in 1..Len(article_tasks) : article_tasks[i].st = "fetch"})

PageFetchesInFlight ==
    Cardinality({i \in 1..Len(page_tasks) : page_tasks[i].st = "fetch"})

\* C3.  At every moment of a parse_news call at most 10 article fetches and
\* at most 5 listing-page fetches are in flight.
C3_FetchesInFlightBounded ==
    /\ ArticleFetchesInFlight <= 10
    /\ PageFetchesInFlight <= 5

\* the article gate is full while a further article task waits for a permit
C3_ArticleGateFull ==
    /\ ArticleFetchesInFlight = 10
    /\ \E i \in 1..Len(article_tasks) : article_tasks[i].st = "wait"

\* C4.  parse_news of a parser never ends by raising to the service: the
\* call that reached a parser ends with a collection.  A url that does not
\* start with "https://" makes NewsCollection raise in the try block and again
\* in the handler.
C4_ParseNewsNeverRaises ==
    ~(pc = "raised" /\ ~IsNone(parser) /\ IsNone(result))

\* the page stubs that are neither in the returned items nor lost to a failed
\* full parse
StubsLeftOut ==
    {a.url : a \in UNION {{page_tasks[i].res[k] : k \in 1..Len(page_tasks[i].res)} :
                             i \in 1..Len(page_tasks)}}
        \ ({ReturnedItems[i].url : i \in 1..Len(ReturnedItems)} \cup hist.full_failed)

\* C5.  With a boundary date B every returned item has no published_at or one
\* whose date is not before B's; without a boundary date no stub is left out
\* of a successful collection for its date (a stub is missing only when its
\* full parse failed).
C5_DateFilter ==
    ParserReturned =>
        /\ \A i \in 1..Len(ReturnedItems) :
              \/ IsNone(until_date)
              \/ IsNone(ReturnedItems[i].article_data.published_at)
              \/ Get(ReturnedItems[i].article_data.published_at).d >= Get(until_date).d
        /\ (IsNone(until_date) /\ Get(result).parse_status = "success")
              => StubsLeftOut = {}

\* a boundary date cut a stub out while another one stayed
C5_StubCutByDate ==
    /\ ParserReturned
    /\ ~IsNone(until_date)
    /\ Len(ReturnedItems) > 0
    /\ StubsLeftOut /= {}

\* the host of the article differs from the source's: the stub-only path
OffDomain(item) == ~ShouldParseFullContent(Get(parser), url, item.url)

ListingOver == parser \in {Some("epravda"), Some("politeka")} /\ pc \notin {"start", "pages"}

Faulty(i) == page_tasks[i].st = "done" /\ page_tasks[i].kind /= "ok"

StubsOfPages(n) == Flatten([j \in 1..n |-> page_tasks[j].res])

C8_TotalItemsIsLen ==
    /\ ParserReturned => Get(result).total_items = Len(Get(result).items)
    /\ \A i \in 1..Len(store) :
          ModelValidate(store[i]).ok =>
              ModelValidate(store[i]).v.total_items = Len(store[i].items)
    /\ (~IsNone(response) /\ Get(response).out.ok) =>
          Get(response).out.v.total_items = Len(Get(response).out.v.items)

\* get_news_by_date_range returned a page shorter than what it found
C8_PaginatedDateRange ==
    /\ ~IsNone(response)
    /\ Get(response).op = "get_news_by_date_range"
    /\ Get(response).out.ok
    /\ Len(store) > 0
    /\ Len(Get(response).out.v.items) > 0
    /\ Len(Get(response).out.v.items) < Len(store[1].items)

\* C9.  A collection returned by a parser's parse_news has status success or
\* failed; failed comes with no items and an error text, success with no
\* error text.
C9_StatusAndError ==
    ParserReturned =>
        /\ Get(result).parse_status \in {"success", "failed"}
        /\ Get(result).parse_status = "failed" =>
              /\ Get(result).items = <<>>
              /\ ~IsNone(Get(result).error_message)
              /\ Get(Get(result).error_message) /= ""
        /\ Get(result).parse_status = "success" => IsNone(Get(result).error_message)

\* a fault inside parse_news came back as a failed collection
C9_FailedReturned ==
    /\ ParserReturned
    /\ Get(result).parse_status = "failed"
    /\ Get(result).error_message = Some("markup fault")

\* the url names none of the known source domains
NoKnownDomain ==
    \A d \in {<<"e", "pravda.com.ua">>, <<"pravda.com.ua">>, <<"politeka.net">>} :
        ~Contains(Lower(url), d)

\* C10.  NewsService.parse_news with a url of no known source domain ends by
\* raising ValueError: no parser is called and nothing is saved.
C10_UnknownUrlRaises ==
    (NoKnownDomain /\ pc /= "idle") =>
        /\ pc = "raised"
        /\ raised = Some("ValueError")
        /\ IsNone(parser)
        /\ IsNone(result)
        /\ hist.parser_calls = 0
        /\ hist.saves = 0
        /\ store = <<>>

\* the call with the url of an unknown site has raised
C10_UnknownUrlRaised ==
    /\ NoKnownDomain
    /\ pc = "raised"
    /\ raised = Some("ValueError")

----------------------------------------------------------------------------
\* C11: every lookup that builds a collection with one of the statuses
\* not_found, no_data, no_results or error returns that collection: whenever
\* a lookup has answered, its outcome is a collection and not an exception.
\* (Violated: validate_parse_status admits success, partial and failed only,
\* so the "not_found" and "no_data" collections raise, and so does the
\* "error" collection of the except handler.)
C11_LookupReturnsCollection ==
    ~IsNone(response) => Get(response).out.ok

----------------------------------------------------------------------------
\* The product side: app/models/product.py, app/parsers/base.py,
\* app/parsers/product_parsers/hotline_parser.py, app/services/
\* product_service.py, app/repositories/product_repository.py.
\*
\* A price is a whole number of thousandths of a hryvnia, so that round(v, 2)
\* is a computation.  A text whose characters the code inspects (a price
\* string, a shop name) is the sequence of its characters.

DigitChars == <<"0", "1", "2", "3", "4", "5", "6", "7", "8", "9">>
IsDigit(c) == \E i \in 1..Len(DigitChars) : DigitChars[i] = c
Digit(c) == (CHOOSE i \in 1..Len(DigitChars) : DigitChars[i] = c) - 1

RECURSIVE DigitsVal(_)
DigitsVal(ds) ==
    IF Len(ds) = 0 THEN 0
    ELSE DigitsVal(SubSeq(ds, 1, Len(ds) - 1)) * 10 + Digit(ds[Len(ds)])

\* float(s) for a text of digits and dots, in thousandths (further decimals
\* are cut): "12", "12.", ".5" and "12.5" are numbers, "" and "1.2.3" are not
ParseFloat(s) ==
    LET dots == {i \in 1..Len(s) : s[i] = "."}
        dot == IF dots = {} THEN Len(s) + 1
               ELSE CHOOSE i \in dots : \A j \in dots : i <= j
        whole == SubSeq(s, 1, dot - 1)
        frac == SubSeq(s, dot + 1, Len(s))
    IN IF Cardinality(dots) > 1 \/ Len(whole) + Len(frac) = 0
       THEN Err("ValueError")
       ELSE Ok(DigitsVal(whole) * 1000
               + DigitsVal(SubSeq(frac \o <<"0", "0", "0">>, 1, 3)))

\* the JSON values a price can be
Number(v) == [t |-> "number", v |-> v, s |-> <<>>]
Text(s) == [t |-> "str", v |-> 0, s |-> s]
Null == [t |-> "null", v |-> 0, s |-> <<>>]

\* HotlineParser._extract_price
ExtractPrice(price_data) ==
    IF price_data.t = "number" THEN price_data.v
    ELSE IF price_data.t = "str"
    THEN LET kept == SelectSeq(price_data.s,
                        LAMBDA c : IsDigit(c) \/ c = "." \/ c = ",")
             price_clean == [i \in 1..Len(kept) |->
                                IF kept[i] = "," THEN "." ELSE kept[i]]
             parsed == ParseFloat(price_clean)
         IN IF parsed.ok THEN parsed.v ELSE 0
    ELSE 0

\* round(v, 2) of a price v >= 0: to the nearest hundredth, a half to the even one
Round2(v) ==
    LET r == v % 10
        down == v - r
    IN IF r < 5 THEN down
       ELSE IF r > 5 THEN down + 10
       ELSE IF (down \div 10) % 2 = 0 THEN down ELSE down + 10

\* ProductOffer(...): min_length=1 of title and shop, ge=0 of price, then
\* validate_price
ProductOffer(offer_url, original_url, title, shop, price, is_used) ==
    IF title = "" \/ Len(shop) = 0 \/ price < 0 THEN Err("ValidationError")
    ELSE Ok([url |-> offer_url, original_url |-> original_url, title |-> title,
             shop |-> shop, price |-> Round2(price), is_used |-> is_used])

\* Product(url=..., offers=...): validate_url; total_offers is not passed, and
\* a field validator does not run on a default, so it stays 0
Product(product_url, offers, t) ==
    IF ~Contains(Lower(product_url), <<"hotline.ua">>)
    THEN Err("ValidationError")
    ELSE Ok([url |-> product_url, offers |-> offers, parsed_at |-> t,
             total_offers |-> 0])

\* the letters of the shop names and their code points
Ord(c) ==
    CASE c = "A" -> 65 [] c = "B" -> 66 [] c = "a" -> 97 [] c = "b" -> 98
LowerChar(c) == CASE c = "A" -> "a" [] c = "B" -> "b" [] OTHER -> c
\* x.shop.lower()
LowerText(s) == [i \in 1..Len(s) |-> LowerChar(s[i])]

\* s < t of Python strings
RECURSIVE TextLess(_, _)
TextLess(s, t) ==
    IF Len(t) = 0 THEN FALSE
    ELSE IF Len(s) = 0 THEN TRUE
    ELSE IF Ord(Head(s)) /= Ord(Head(t)) THEN Ord(Head(s)) < Ord(Head(t))
    ELSE TextLess(Tail(s), Tail(t))

\* whether offer a sorts strictly before offer b under sort_by; an unknown
\* sort_by sorts nothing
KeyLess(sort_by, a, b) ==
    CASE sort_by = "price" -> a.price < b.price
      [] sort_by = "price_desc" -> a.price > b.price
      [] sort_by = "shop" -> TextLess(LowerText(a.shop), LowerText(b.shop))
      [] sort_by = "shop_desc" -> TextLess(LowerText(b.shop), LowerText(a.shop))
      [] OTHER -> FALSE

\* list.sort is stable, and with reverse=True it keeps the order of equal
\* keys as well: x goes behind every offer it does not sort strictly before
RECURSIVE InsertOffer(_, _, _)
InsertOffer(sort_by, x, sorted) ==
    IF Len(sorted) = 0 THEN <<x>>
    ELSE IF KeyLess(sort_by, x, Head(sorted)) THEN <<x>> \o sorted
         ELSE <<Head(sorted)>> \o InsertOffer(sort_by, x, Tail(sorted))

\* HotlineParser._sort_offers
RECURSIVE SortOffers(_, _)
SortOffers(offers, sort_by) ==
    IF Len(offers) = 0 THEN <<>>
    ELSE InsertOffer(sort_by, offers[Len(offers)],
                     SortOffers(SubSeq(offers, 1, Len(offers) - 1), sort_by))


\* BaseParser._validate_parameters; count_limit is Optional
ValidateParameters(timeout_limit, count_limit, sort_by) ==
    IF timeout_limit < 5 \/ timeout_limit > 300
    THEN Err("ValueError: timeout_limit 5..300")
    ELSE IF ~IsNone(count_limit) /\ (Get(count_limit) < 1 \/ Get(count_limit) > 100)
    THEN Err("ValueError: count_limit 1..100")
    ELSE IF sort_by \notin {"price", "price_desc", "shop", "shop_desc"}
    THEN Err("ValueError: sort_by")
    ELSE Ok(TRUE)

\* BaseParser._validate_url(url, "hotline.ua")
ValidateUrl(u, domain) ==
    /\ Len(u) > 0
    /\ Contains(Lower(u), domain)
    /\ u[1] = "https://"

LangPieces == {"/ua", "/uk", "/ru", "/en"}
\* HotlineParser._extract_path_from_url: what follows hotline.ua, without
\* the language prefix; None when nothing but "/" is left
ExtractPathFromUrl(u) ==
    LET at == {i \in 1..Len(u) : u[i] = "hotline.ua"} IN
    IF at = {} THEN None
    ELSE LET first == CHOOSE i \in at : \A j \in at : i <= j
             path_part == SubSeq(u, first + 1, Len(u))
             path == IF Len(path_part) > 1 /\ path_part[1] \in LangPieces
                     THEN Tail(path_part) ELSE path_part
         IN IF Len(path) = 0 \/ path = <<"/">> THEN None ELSE Some(path)

\* HotlineParser._get_url_type_and_token on what the site answered: the
\* url_info dict, or None for a status other than 200, an errors body, a
\* missing urlTypeDefiner or a fault of the request
GetUrlTypeAndToken(answer) ==
    IF answer.status /= 200 \/ answer.body /= "data" THEN None
    ELSE Some([type |-> answer.type, token |-> "x-token"])

\* the offers query read without a look at the status and the errors
GetOffersViaGraphqlUnchecked(answer) == answer.edges

\* HotlineParser._get_offers_via_graphql on what the site answered: the edge
\* nodes, or [] for a status other than 200, a body with errors, a body with
\* no product or no edges, and a fault of the request
GetOffersViaGraphql(answer) ==
    IF answer.status /= 200 THEN <<>>
    ELSE IF answer.body /= "data" THEN <<>>
    ELSE answer.edges

\* offer_data.get("price", 0), then _extract_price
EdgePrice(offer_data) ==
    ExtractPrice(IF IsNone(offer_data.price) THEN Number(0)
                 ELSE Get(offer_data.price))

\* one raw_offer dict of _parse_offers
RawOffer(offer_data) ==
    [url |-> IF Len(offer_data.conversionUrl) = 0 THEN <<>>
             ELSE <<"https://", "hotline.ua">> \o offer_data.conversionUrl,
     title |-> IF offer_data.descriptionShort /= "" THEN offer_data.descriptionShort
               ELSE "goods of the shop",
     shop |-> offer_data.firmTitle,
     price |-> EdgePrice(offer_data),
     is_used |-> ~(offer_data.conditionId = 0 \/ offer_data.condition = "new")]

\* the first loop of _parse_offers: the edges whose price is above zero
RawOffers(offers_data) ==
    LET priced == SelectSeq(offers_data, LAMBDA e : EdgePrice(e) > 0) IN
    [i \in 1..Len(priced) |-> RawOffer(priced[i])]

\* HotlineParser._clean_url_parameters: the url without its query pieces
CleanUrlParameters(u) == SelectSeq(u, LAMBDA x : x /= "?utm=1")

\* HotlineParser._get_original_url on what HEAD and GET end at (None: the
\* request raises)
GetOriginalUrl(hotline_url, answer) ==
    IF ~StartsWith(hotline_url, <<"https://", "hotline.ua", "/go/">>)
    THEN hotline_url
    ELSE IF IsNone(answer.head) THEN hotline_url
    ELSE IF /\ Get(answer.head) /= hotline_url
            /\ ~StartsWith(Get(answer.head), <<"https://", "hotline.ua", "/go/">>)
    THEN CleanUrlParameters(Get(answer.head))
    ELSE IF IsNone(answer.get) THEN hotline_url
    ELSE IF Get(answer.get) /= hotline_url
    THEN CleanUrlParameters(Get(answer.get))
    ELSE hotline_url

\* HotlineParser._get_original_urls_batch
GetOriginalUrlsBatch(hotline_urls, answers) ==
    [i \in 1..Len(hotline_urls) |-> GetOriginalUrl(hotline_urls[i], answers[i])]

\* the ProductOffer objects of the raw offers that validate
BuiltOffers(raw, original_urls) ==
    LET built == [i \in 1..Len(raw) |->
                    ProductOffer(raw[i].url, original_urls[i], raw[i].title,
                                 raw[i].shop, raw[i].price, raw[i].is_used)]
    IN Flatten([i \in 1..Len(raw) |->
                    IF built[i].ok THEN <<built[i].v>> ELSE <<>>])

\* offers[:count_limit] under `if count_limit and count_limit > 0`
Truncate(offers, count_limit) ==
    IF ~IsNone(count_limit) /\ Get(count_limit) > 0
    THEN Slice(offers, 0, Get(count_limit))
    ELSE offers

\* the end of _parse_offers with the cut made before the sort
FinalOffersCutFirst(raw, original_urls, sort_by, count_limit) ==
    SortOffers(Truncate(BuiltOffers(raw, original_urls), count_limit), sort_by)

\* the end of _parse_offers: the offers are built, sorted and then cut
FinalOffers(raw, original_urls, sort_by, count_limit) ==
    Truncate(SortOffers(BuiltOffers(raw, original_urls), sort_by), count_limit)


\* a save_product that never looks for a stored document
SaveProductInsertOnly(docs, p, t) ==
    Append(docs, [url |-> p.url, offers |-> p.offers, parsed_at |-> t,
                  total_offers |-> Len(p.offers)])

\* hist.saved_offers after a save_product of p
Remember(saved, p) ==
    {s \in saved : s.url /= p.url} \cup {[url |-> p.url, offers |-> p.offers]}

\* ProductRepository.save_product on a database that answers: replace_one
\* by url with upsert; parsed_at and total_offers are set on the way
SaveProduct(docs, p, t) ==
    LET product_dict == [url |-> p.url, offers |-> p.offers, parsed_at |-> t,
                         total_offers |-> Len(p.offers)]
        hits == {i \in 1..Len(docs) : docs[i].url = p.url}
    IN IF hits = {} THEN Append(docs, product_dict)
       ELSE [docs EXCEPT ![CHOOSE i \in hits : \A j \in hits : i <= j] = product_dict]

\* ProductRepository.delete_product_by_url: delete_one by url
DeleteProductByUrl(docs, u) ==
    LET hits == {i \in 1..Len(docs) : docs[i].url = u} IN
    IF hits = {} THEN docs
    ELSE LET first == CHOOSE i \in hits : \A j \in hits : i <= j IN
         SubSeq(docs, 1, first - 1) \o SubSeq(docs, first + 1, Len(docs))

\* ProductService._is_allowed_domain with allowed_domains = ["hotline.ua"]
IsAllowedDomain(u) == Contains(Lower(u), <<"hotline.ua">>)

\* settings.default_count_limit
DefaultCountLimit == 1000

----------------------------------------------------------------------------
\* The product calls and what hotline.ua can answer.

\* How many edges the offers query returns at most.
MaxEdges == 3

Edge(price, firmTitle, conversionUrl) ==
    [price |-> price, firmTitle |-> firmTitle, conversionUrl |-> conversionUrl,
     descriptionShort |-> "d1", conditionId |-> 0, condition |-> ""]

\* three edges with a price (200.00, 100.00 and "-100,00 g"), and edges whose
\* price is zero, negative, missing, null, unparseable and 0.004
EdgeKinds ==
    {Edge(Some(Number(200000)), <<"b">>, <<"/go/", "1">>),
     Edge(Some(Number(100000)), <<"A">>, <<"/go/", "2">>),
     Edge(Some(Text(<<"-", "1", "0", "0", ",", "0", "0", " ", "g">>)), <<"B">>, <<>>),
     Edge(Some(Number(0)), <<"a">>, <<>>),
     Edge(Some(Number(0 - 5000)), <<"a">>, <<>>),
     Edge(None, <<"a">>, <<>>),
     Edge(Some(Null), <<"a">>, <<>>),
     Edge(Some(Text(<<"1", ".", "2", ".", "3">>)), <<"a">>, <<>>),
     Edge(Some(Number(4)), <<"a">>, <<>>)}

DefinerAnswers ==
    {[status |-> 200, body |-> "data", type |-> "product-regular"],
     [status |-> 200, body |-> "data", type |-> "catalog"],
     [status |-> 200, body |-> "errors", type |-> ""],
     [status |-> 500, body |-> "", type |-> ""]}

\* the edges a faulty answer carries all the same
StrayEdges == <<Edge(Some(Number(200000)), <<"b">>, <<"/go/", "1">>)>>

\* body: "data" (the expected shape), "errors" (an errors array, with or
\* without data), "no_product" (byPathQueryProduct null), "no_edges" (the
\* offers or edges key missing), "fault" (no JSON, or the request raises)
OffersAnswers ==
    {[status |-> 200, body |-> "data", edges |-> es] :
        es \in SeqsUpTo(EdgeKinds, MaxEdges)}
    \cup {[status |-> s, body |-> "data", edges |-> StrayEdges] : s \in {204, 500}}
    \cup {[status |-> 200, body |-> b, edges |-> StrayEdges] :
            b \in {"errors", "no_product", "no_edges", "fault"}}

ShopUrl == <<"https://", "shop.example", "/item", "?utm=1">>

\* another url of the redirector, where a chain of redirects can end
OtherRedirect == <<"https://", "hotline.ua", "/go/", "9">>

\* where HEAD and GET of a redirect url can end; a url that is no redirect
\* url is never requested
RedirectAnswers(hotline_url) ==
    IF ~StartsWith(hotline_url, <<"https://", "hotline.ua", "/go/">>)
    THEN {[head |-> None, get |-> None]}
    ELSE {[head |-> Some(ShopUrl), get |-> None],
          [head |-> Some(hotline_url), get |-> Some(ShopUrl)],
          [head |-> Some(hotline_url), get |-> Some(hotline_url)],
          [head |-> Some(OtherRedirect), get |-> Some(OtherRedirect)],
          [head |-> None, get |-> None]}

RedirectAnswerSeqs(hotline_urls) ==
    {answers \in [1..Len(hotline_urls) ->
                    UNION {RedirectAnswers(hotline_urls[i]) : i \in 1..Len(hotline_urls)}] :
        \A i \in 1..Len(hotline_urls) : answers[i] \in RedirectAnswers(hotline_urls[i])}

ProductUrl == <<"https://", "hotline.ua", "/ua", "/mobile/p1/">>
OtherProductUrl == <<"https://", "hotline.ua", "/mobile/p2/">>

Request(via, product_url, timeout_limit, count_limit, sort, sort_by) ==
    [via |-> via, url |-> product_url, timeout_limit |-> timeout_limit,
     count_limit |-> count_limit, sort |-> sort, sort_by |-> sort_by]

\* GET /offers, and ProductService.parse_and_save_product called directly
ProductRequests ==
    {Request("endpoint", u, t, Some(n), s, "") :
        u \in {ProductUrl, <<"https://", "shop.example", "/p">>},
        t \in {5, 301}, n \in {0, 1, 100, 101, 1000, 1001}, s \in {"asc", "desc"}}
    \cup {Request("service", u, 30, c, "", s) :
            u \in {ProductUrl, <<"http://", "hotline.ua", "/mobile/p1/">>,
                   <<"https://", "hotline.ua", "/">>,
                   <<"https://", "shop.example", "/p">>},
            c \in {None, Some(2)},
            s \in {"price", "price_desc", "shop", "shop_desc", "rating"}}

\* the variables of the news side
newsVars == <<url, until_date, web, parser, page_urls, page_tasks,
              page_semaphore, all_articles, articleVars, result, store,
              response, built_data, sharedVars>>

NewsAtRest ==
    /\ url = <<>>
    /\ until_date = None
    /\ web = [mode |-> "off", left |-> 0]
    /\ parser = None
    /\ page_urls = <<>>
    /\ page_tasks = <<>>
    /\ page_semaphore = PageGate
    /\ all_articles = <<>>
    /\ full_parse_articles = <<>>
    /\ simple_news_items = <<>>
    /\ full_news_items = <<>>
    /\ batch_start = 0
    /\ article_tasks = <<>>
    /\ article_semaphore = ArticleGate
    /\ result = None
    /\ store = <<>>
    /\ response = None
    /\ hist = NoHistory
    /\ built_data = None

InitProduct ==
    /\ NewsAtRest
    /\ SharedAtRest
    /\ request \in {Some(r) : r \in ProductRequests}
    /\ pc = Get(request).via
    /\ raised = None
    /\ now = 2 * HourTicks
    /\ raw_offers = <<>>
    /\ product = None
    /\ products = <<>>

\* the call ends with an exception
Raise(e) ==
    /\ raised' = Some(e)
    /\ pc' = "product_raised"
    /\ UNCHANGED <<request, raw_offers, product, products>>

\* GET /offers (get_product_offers): the Query constraints, the url tests,
\* the sort_by of the service
GetProductOffers ==
    /\ pc = "endpoint"
    /\ LET r == Get(request) IN
       IF \/ r.timeout_limit < 5 \/ r.timeout_limit > 300
          \/ Get(r.count_limit) < 1 \/ Get(r.count_limit) > 1000
          \/ r.sort \notin {"desc", "asc"}
       THEN Raise("HTTP 422")
       ELSE IF r.url[1] \notin Schemes \/ ~Contains(Lower(r.url), <<"hotline.ua">>)
       THEN Raise("HTTP 400")
       ELSE /\ request' = Some([r EXCEPT !.sort_by = IF r.sort = "desc"
                                                      THEN "price_desc" ELSE "price"])
            /\ pc' = "service"
            /\ UNCHANGED <<raised, raw_offers, product, products>>
    /\ UNCHANGED <<newsVars, now, hist>>

\* ProductService.parse_and_save_product up to the call of the parser
ParseAndSaveProduct ==
    /\ pc = "service"
    /\ LET r == Get(request) IN
       IF ~IsAllowedDomain(r.url) THEN Raise("ValueError: domain")
       ELSE /\ request' = Some([r EXCEPT !.count_limit =
                                    IF IsNone(@) THEN Some(DefaultCountLimit) ELSE @])
            /\ pc' = "parser"
            /\ UNCHANGED <<raised, raw_offers, product, products>>
    /\ UNCHANGED <<newsVars, now, hist>>

\* HotlineParser.parse_product up to the first request
ParseProduct ==
    /\ pc = "parser"
    /\ LET r == Get(request)
           checked == ValidateParameters(r.timeout_limit, r.count_limit, r.sort_by)
       IN IF ~checked.ok THEN Raise(checked.err)
          ELSE IF ~ValidateUrl(r.url, <<"hotline.ua">>) THEN Raise("ValueError: url")
          ELSE IF IsNone(ExtractPathFromUrl(r.url)) THEN Raise("ValueError: path")
          ELSE /\ pc' = "definer"
               /\ UNCHANGED <<raised, request, raw_offers, product, products>>
    /\ UNCHANGED <<newsVars, now, hist>>

\* parse_product after `await self._get_url_type_and_token(client, path)`
UrlTypeDefinerDone(answer) ==
    /\ pc = "definer"
    /\ LET url_info == GetUrlTypeAndToken(answer) IN
       IF IsNone(url_info) THEN Raise("ValueError: no url info")
       ELSE IF Get(url_info).type /= "product-regular"
       THEN Raise("ValueError: not a product page")
       ELSE /\ pc' = "offers"
            /\ UNCHANGED <<raised, request, raw_offers, product, products>>
    /\ UNCHANGED <<newsVars, now, hist>>

\* parse_product hands back Product(url=url, offers=offers)
ReturnProduct(offers) ==
    LET built == Product(Get(request).url, offers, now) IN
    IF built.ok
    THEN /\ product' = Some(built.v)
         /\ pc' = "product_parsed"
         /\ raised' = raised
    ELSE /\ product' = product
         /\ pc' = "product_raised"
         /\ raised' = Some(built.err)

\* parse_product after `await self._get_offers_via_graphql(...)`, and
\* _parse_offers up to `await self._get_original_urls_batch(...)`
OffersQueryDone(answer) ==
    /\ pc = "offers"
    /\ LET offers_data == GetOffersViaGraphql(answer)
           raw == RawOffers(offers_data)
           r == Get(request)
       IN IF Len(offers_data) = 0
          THEN ReturnProduct(<<>>) /\ raw_offers' = raw_offers
          ELSE IF Len(raw) = 0
          THEN /\ ReturnProduct(FinalOffers(raw, <<>>, r.sort_by, r.count_limit))
               /\ raw_offers' = raw
          ELSE /\ raw_offers' = raw
               /\ pc' = "redirects"
               /\ UNCHANGED <<raised, product>>
    /\ hist' = [hist EXCEPT !.offers_answer =
                    Some([status |-> answer.status, body |-> answer.body])]
    /\ UNCHANGED <<newsVars, now, request, products>>

\* _parse_offers after the gather of the redirects, and the end of
\* parse_product
RedirectsDone ==
    /\ pc = "redirects"
    /\ LET r == Get(request)
           hotline_urls == [i \in 1..Len(raw_offers) |-> raw_offers[i].url]
       IN \E answers \in RedirectAnswerSeqs(hotline_urls) :
            ReturnProduct(FinalOffers(raw_offers,
                                      GetOriginalUrlsBatch(hotline_urls, answers),
                                      r.sort_by, r.count_limit))
    /\ UNCHANGED <<newsVars, now, hist, request, raw_offers, products>>

\* parse_and_save_product after the parser: save_product, then the return
ProductSaved(db) ==
    /\ pc = "product_parsed"
    /\ IF db = "ok"
       THEN /\ products' = SaveProduct(products, Get(product), now)
            /\ hist' = [hist EXCEPT !.saved_offers = Remember(@, Get(product))]
            /\ pc' = "product_returned"
            /\ raised' = raised
       ELSE /\ products' = products
            /\ hist' = hist
            /\ pc' = "product_raised"
            /\ raised' = Some("database fault")
    /\ UNCHANGED <<newsVars, now, request, raw_offers, product>>

NextProduct ==
    \/ GetProductOffers
    \/ ParseAndSaveProduct
    \/ ParseProduct
    \/ \E answer \in DefinerAnswers : UrlTypeDefinerDone(answer)
    \/ \E answer \in OffersAnswers : OffersQueryDone(answer)
    \/ RedirectsDone
    \/ \E db \in {"ok", "fault"} : ProductSaved(db)

\* the product calls
SpecProduct == InitProduct /\ [][NextProduct]_vars

----------------------------------------------------------------------------
\* What the product claims speak of.

\* parse_product has returned a Product
ProductParsed == ~IsNone(product)
ReturnedOffers == IF ProductParsed THEN Get(product).offers ELSE <<>>

\* C12: a product call whose count limit lies in 1..1000, the default of the
\* service included, is not rejected for its count limit anywhere on the way
\* through the endpoint, the service and the parser.
\* (Violated: _validate_parameters of the parser admits 1..100 only.)
C12_CountLimitAccepted ==
    (/\ ~IsNone(request)
     /\ ~IsNone(Get(request).count_limit)
     /\ Get(Get(request).count_limit) \in 1..1000)
    => raised /= Some("ValueError: count_limit 1..100")

\* C15: every offer of a returned Product has a price above zero.
\* (Violated: the price test is made before ProductOffer rounds the price
\* to two decimals, so an edge priced 0.004 gives an offer priced 0.00.)
C15_OffersPricePositive ==
    \A i \in 1..Len(ReturnedOffers) : ReturnedOffers[i].price > 0

\* what identifies an offer apart from its original_url
Core(o) == [url |-> o.url, title |-> o.title, shop |-> o.shop, price |-> o.price]

\* every offer that _parse_offers built, in the order of the edges
AllBuilt ==
    BuiltOffers(raw_offers, [i \in 1..Len(raw_offers) |-> raw_offers[i].url])

Count(v, offers) == Cardinality({i \in 1..Len(offers) : Core(offers[i]) = v})

\* C16: the offers of a returned Product are ordered by the requested key
\* (the price, or the shop name without regard to case), are at most
\* count_limit many, and are the first count_limit offers of the sorted
\* list of all offers built: as many as the limit allows, each one of the
\* built offers, and no offer that was left out sorts before one returned.
C16_SortedThenTruncated ==
    (ProductParsed /\ ~IsNone(Get(request).count_limit)) =>
        LET r == Get(request)
            limit == Get(r.count_limit)
        IN /\ \A i, j \in 1..Len(ReturnedOffers) :
                i < j => ~KeyLess(r.sort_by, ReturnedOffers[j], ReturnedOffers[i])
           /\ Len(ReturnedOffers) <= limit
           /\ Len(ReturnedOffers) = Min(limit, Len(AllBuilt))
           /\ \A k \in 1..Len(ReturnedOffers) :
                Count(Core(ReturnedOffers[k]), ReturnedOffers)
                    <= Count(Core(ReturnedOffers[k]), AllBuilt)
           /\ \A i \in 1..Len(AllBuilt) :
                Count(Core(AllBuilt[i]), ReturnedOffers)
                        < Count(Core(AllBuilt[i]), AllBuilt)
                    => \A k \in 1..Len(ReturnedOffers) :
                          ~KeyLess(r.sort_by, AllBuilt[i], ReturnedOffers[k])

\* a call returned two offers of three built, highest price first, and the
\* edges came in another order
C16_CutAfterSort ==
    /\ pc = "product_returned"
    /\ Get(request).sort_by = "price_desc"
    /\ Len(AllBuilt) = 3
    /\ Len(ReturnedOffers) = 2
    /\ ReturnedOffers[1].price > ReturnedOffers[2].price
    /\ AllBuilt[1].price < AllBuilt[3].price

\* the answers of the offers query that C17 names: a status outside 2xx, a
\* body with an errors array, a body without the offer edges
OffersAnswerFaulty ==
    /\ ~IsNone(hist.offers_answer)
    /\ \/ Get(hist.offers_answer).status \notin 200..299
       \/ Get(hist.offers_answer).body \in {"errors", "no_product", "no_edges"}

\* C17: after such an answer parse_product returns a Product with no offers
\* and total_offers 0, and raises nothing.
C17_FaultyOffersAnswerGivesEmptyProduct ==
    OffersAnswerFaulty =>
        /\ ProductParsed
        /\ Get(product).offers = <<>>
        /\ Get(product).total_offers = 0
        /\ raised \in {None, Some("database fault")}

\* the service returned the empty Product of an answer with status 500
C17_EmptyProductReturned ==
    /\ pc = "product_returned"
    /\ hist.offers_answer = Some([status |-> 500, body |-> "data"])
    /\ Get(product).offers = <<>>
    /\ raised = None

----------------------------------------------------------------------------
\* The repositories under a sequence of calls: save_news_collection on the
\* news collection, save_product and delete_product_by_url on the products
\* collection, and the clock.

\* How many ticks the clock advances (beyond the hour of the first save).
StoreTicks == 3
\* How many saves a run makes at most.
MaxSaves == 3

\* the collections that are saved: two sources, two contents
StoreCollections ==
    {NewsCollection(NewsUrl(p), <<>>, 0, "failed", Some(e)).v :
        p \in {"pravda", "epravda"}, e \in {"e1", "e2"}}

StoreOffer(shop, price) ==
    ProductOffer(<<>>, <<>>, "d1", shop, price, FALSE).v

\* the products that are saved: two urls, three offer lists
StoreProducts ==
    {Product(u, offers, 0).v :
        u \in {ProductUrl, OtherProductUrl},
        offers \in {<<>>, <<StoreOffer(<<"A">>, 100000)>>,
                    <<StoreOffer(<<"b">>, 200000), StoreOffer(<<"A">>, 100000)>>}}

InitStore ==
    /\ NewsAtRest
    /\ SharedAtRest
    /\ pc \in {"news_store", "product_store"}
    /\ raised = None
    /\ now = 2 * HourTicks
    /\ request = None
    /\ raw_offers = <<>>
    /\ product = None
    /\ products = <<>>

storeFrame == <<pc, url, until_date, web, parser, page_urls, page_tasks,
                page_semaphore, all_articles, articleVars, result, raised,
                response, request, raw_offers, product, built_data,
                sharedVars>>

\* NewsRepository.save_news_collection(collection)
SaveNewsCollectionCall(coll) ==
    /\ pc = "news_store"
    /\ hist.saves < MaxSaves
    /\ store' = SaveNewsCollection(store, coll, now)
    /\ hist' = [hist EXCEPT !.saves = @ + 1]
    /\ UNCHANGED <<storeFrame, now, products>>

\* ProductRepository.save_product(product)
SaveProductCall(p) ==
    /\ pc = "product_store"
    /\ hist.saves < MaxSaves
    /\ products' = SaveProduct(products, p, now)
    /\ hist' = [hist EXCEPT !.saves = @ + 1, !.saved_offers = Remember(@, p)]
    /\ UNCHANGED <<storeFrame, now, store>>

\* ProductRepository.delete_product_by_url(url)
DeleteProductCall(u) ==
    /\ pc = "product_store"
    /\ products' = DeleteProductByUrl(products, u)
    /\ UNCHANGED <<storeFrame, now, store, hist>>

\* time passes between two calls
Tick ==
    /\ now < 2 * HourTicks + StoreTicks
    /\ now' = now + 1
    /\ UNCHANGED <<storeFrame, store, products, hist>>

NextStore ==
    \/ \E coll \in StoreCollections : SaveNewsCollectionCall(coll)
    \/ \E p \in StoreProducts : SaveProductCall(p)
    \/ \E u \in {ProductUrl, OtherProductUrl} : DeleteProductCall(u)
    \/ Tick

\* the repositories under repeated calls
SpecStore == InitStore /\ [][NextStore]_vars

----------------------------------------------------------------------------
\* What the repository claims speak of.

DocsOf(docs, source) == SelectSeq(docs, LAMBDA d : d.source = source)
DocsNotOf(docs, source) == SelectSeq(docs, LAMBDA d : d.source /= source)
\* the stored documents of the source that were parsed within the last hour
WindowHits(source) == {i \in 1..Len(store) : InWindow(store[i], source, now)}

\* the save replaced one document of the window by `new`, and nothing else
ReplacedInWindow(coll, new) ==
    /\ Len(store') = Len(store)
    /\ \E i \in WindowHits(coll.source) :
          /\ store'[i] = new
          /\ \A j \in 1..Len(store) : j /= i => store'[j] = store[j]

\* the save inserted `new`, and nothing else
InsertedOne(coll, new) ==
    /\ Len(store') = Len(store) + 1
    /\ SubSeq(store', 1, Len(store)) = store
    /\ store'[Len(store')] = new

FirstHitUnchanged(coll) ==
    /\ WindowHits(coll.source) /= {}
    /\ store[CHOOSE i \in WindowHits(coll.source) :
                \A j \in WindowHits(coll.source) : i <= j] = Document(coll, now)

C14_OneProductPerUrl ==
    /\ \A i, j \in 1..Len(products) :
          products[i].url = products[j].url => i = j
    /\ \A i \in 1..Len(products) :
          [url |-> products[i].url, offers |-> products[i].offers]
              \in hist.saved_offers

\* a stored product was replaced in place by a later save with other offers
C14_ProductReplaced ==
    /\ pc = "product_store"
    /\ Len(products) = 2
    /\ products[1].parsed_at > products[2].parsed_at
    /\ hist.saves = 3
    /\ Len(products[1].offers) = 2

----------------------------------------------------------------------------
\* ArticleData constructed directly, on the url shapes an extraction can
\* produce.

\* How many image urls a constructed ArticleData is given at most.
MaxImages == 2

\* absolute https, absolute http, protocol-relative, root-relative, a bare
\* path, https behind a blank, and blank
ImageShapes ==
    {<<"https://", "img.example", "/i.jpg">>,
     <<"http://", "img.example", "/i.jpg">>,
     <<"//", "img.example", "/i.jpg">>,
     <<"/i.jpg">>,
     <<"i.jpg">>,
     <<" ", "https://", "img.example", "/i.jpg">>,
     <<" ">>}

VideoShapes ==
    {<<"https://", "img.example", "/v.mp4">>,
     <<"http://", "img.example", "/v.mp4">>,
     <<"//", "img.example", "/v.mp4">>,
     <<"/v.mp4">>,
     <<"v.mp4">>,
     <<" ">>}

InitMedia ==
    /\ NewsAtRest
    /\ SharedAtRest
    /\ pc = "construct"
    /\ raised = None
    /\ now = 2 * HourTicks
    /\ request \in {Some([image_urls |-> images, video_url |-> video]) :
                        images \in SeqsUpTo(ImageShapes, MaxImages),
                        video \in {None} \cup {Some(v) : v \in VideoShapes}}
    /\ raw_offers = <<>>
    /\ product = None
    /\ products = <<>>

\* ArticleData(title=..., content_body=..., image_urls=..., video_url=...)
ConstructArticleData ==
    /\ pc = "construct"
    /\ built_data' = Some(ArticleData("h1", "body", Some(NowDT),
                                      Get(request).image_urls,
                                      Get(request).video_url))
    /\ pc' = "constructed"
    /\ UNCHANGED <<url, until_date, web, parser, page_urls, page_tasks,
                   page_semaphore, all_articles, articleVars, result, raised,
                   store, now, response, hist, request, raw_offers, product,
                   products, sharedVars>>

\* ArticleData under direct construction
SpecMedia == InitMedia /\ [][ConstructArticleData]_vars

\* the image urls given that are neither blank nor root-relative
ImagesKept(images) ==
    {i \in 1..Len(images) :
        /\ Len(Strip(images[i])) > 0
        /\ (StartsWithSlash(Strip(images[i])) => StartsWithSlashSlash(Strip(images[i])))}

\* C18: every image url and every video url that is not absent of an
\* ArticleData starts with https://, whatever shapes it was given; the image
\* urls given root-relative (or blank) are dropped, the others are kept,
\* rewritten where needed.
C18_MediaUrlsStartWithHttps ==
    ~IsNone(built_data) =>
        LET data == Get(built_data) IN
        /\ \A i \in 1..Len(data.image_urls) :
              StartsWith(data.image_urls[i], <<"https://">>)
        /\ ~IsNone(data.video_url) => StartsWith(Get(data.video_url), <<"https://">>)
        /\ Len(data.image_urls) = Cardinality(ImagesKept(Get(request).image_urls))

\* a root-relative and an http image url and a protocol-relative video url
\* were given; one image url is left
C18_RootRelativeDropped ==
    /\ pc = "constructed"
    /\ Get(request).image_urls = <<(<<"/i.jpg">>), <<"http://", "img.example", "/i.jpg">>>>
    /\ Get(request).video_url = Some(<<"//", "img.example", "/v.mp4">>)
    /\ Len(Get(built_data).image_urls) = 1
    /\ ~IsNone(Get(built_data).video_url)

----------------------------------------------------------------------------
\* the listing fetches that hold a permit of the page gate: the pravda parser
\* fetches its one listing page without the gate
PagePermitsHeld ==
    IF parser = Some("pravda") THEN 0 ELSE PageFetchesInFlight

\* C20: for each gate the free permits and the tasks that hold one add up to
\* the capacity (5 and 10) in every state, and once parse_news of the parser
\* has ended, with a collection or not, every permit of both gates is free.
C20_PermitsConserved ==
    /\ page_semaphore + PagePermitsHeld = PageGate
    /\ article_semaphore + ArticleFetchesInFlight = ArticleGate
    /\ pc \in {"parsed", "returned", "raised"} =>
          page_semaphore = PageGate /\ article_semaphore = ArticleGate

\* the call returned a collection after a listing page and an article
\* failed, and every permit is back
C20_PermitsBackAfterFaults ==
    /\ pc = "returned"
    /\ hist.full_failed /= {}
    /\ \E i \in 1..Len(page_tasks) : page_tasks[i].kind /= "ok"
    /\ page_semaphore = PageGate
    /\ article_semaphore = ArticleGate

----------------------------------------------------------------------------
\* the full-parse articles whose fetch has started or ended
ArticlesStarted ==
    batch_start
    + Cardinality({i \in 1..Len(article_tasks) : article_tasks[i].st /= "wait"})

\* C19 as the specification states it: while parse_news processes the
\* full-parse articles, whenever the article gate has a free slot and an
\* article of a batch has not started its fetch, an article fetch can start,
\* whether the tasks of the batch before have ended or not.
C19_NextBatchStartsOnFreeSlot ==
    (/\ pc = "articles"
     /\ article_semaphore > 0
     /\ ArticlesStarted < Len(full_parse_articles))
    => ENABLED ArticleAcquire

\* C19 as the code has it: the batches run one after the other; while a task
\* of a batch is past its wait for the gate, every article of the batches
\* before it has ended its fetch, and no article beyond the batch has started.
C19_BatchesRunInTurn ==
    (/\ pc = "articles"
     /\ \E i \in 1..Len(article_tasks) : article_tasks[i].st /= "wait")
    => /\ hist.fetched >= batch_start
       /\ ArticlesStarted <= batch_start + BatchSize

\* a fetch of the second batch is in flight, after the first batch waited for
\* its last tasks with free slots at the gate
C19_SecondBatchFetching ==
    /\ pc = "articles"
    /\ batch_start = BatchSize
    /\ hist.fetched >= BatchSize
    /\ \E i \in 1..Len(article_tasks) : article_tasks[i].st = "fetch"

----------------------------------------------------------------------------
\* the stub is older than the boundary of the call: it has a timestamp and
\* its day lies before the boundary's day
OlderThanBoundary(a) ==
    /\ ~IsNone(until_date)
    /\ ~IsNone(a.datetime)
    /\ DateOf(Get(a.datetime)) < DateOf(Get(until_date))

\* the stubs of a listing page that lie before its first stub older than the
\* boundary (all of them when it has none)
BeforeFirstOlder(stubs) ==
    LET old == {j \in 1..Len(stubs) : OlderThanBoundary(stubs[j])} IN
    IF old = {} THEN stubs
    ELSE SubSeq(stubs, 1, (CHOOSE j \in old : \A k \in old : j <= k) - 1)

\* the listing pages whose fetch has ended
PagesDone == {i \in 1..Len(page_tasks) : page_tasks[i].st = "done"}

\* C21: in a politeka call with a boundary date, the stubs collected from the
\* listing pages are, page by page, the stubs before the page's first stub
\* older than the boundary, and once a page has shown such a stub no later
\* page is fetched.
C21_SweepStopsAtFirstOlderStub ==
    (parser = Some("politeka") /\ ~IsNone(until_date) /\ pc /= "start") =>
       /\ all_articles =
             Flatten([i \in 1..Len(page_tasks) |->
                         IF i \in PagesDone THEN BeforeFirstOlder(page_tasks[i].res)
                         ELSE <<>>])
       /\ \A i \in PagesDone :
             (\E j \in 1..Len(page_tasks[i].res) :
                 OlderThanBoundary(page_tasks[i].res[j]))
             => \A k \in (i + 1)..Len(page_tasks) : page_tasks[k].st = "idle"

\* the first page brought a stub within the boundary and then an older one:
\* the first is kept, the sweep is over and the second page was never asked for
C21_StoppedAfterKeptStub ==
    /\ parser = Some("politeka")
    /\ pc \in {"parsed", "returned"}
    /\ 1 \in PagesDone
    /\ Len(page_tasks[1].res) = 2
    /\ ~OlderThanBoundary(page_tasks[1].res[1])
    /\ OlderThanBoundary(page_tasks[1].res[2])
    /\ Len(all_articles) = 1
    /\ page_tasks[2].st = "idle"

----------------------------------------------------------------------------
\* the listing pages the call has asked for, or is about to
PagesAsked == {i \in 1..Len(page_tasks) : page_tasks[i].st /= "idle"}

\* C22: a politeka call asks for at most 10 listing pages, one at a time and
\* in page order, the first being the source url itself, and for no page after
\* one that gave no stub or that showed a stub older than the boundary.
C22_SweepBoundedAndSequential ==
    (parser = Some("politeka") /\ pc /= "start") =>
       /\ Cardinality(PagesAsked) <= 10
       /\ Len(page_urls) <= 10
       /\ page_urls[1] = [base |-> url, sep |-> "", page |-> 1]
       /\ \A i \in 1..Len(page_urls) : page_urls[i].page = i
       /\ PagesAsked = 1..Cardinality(PagesAsked)
       /\ Cardinality(PagesAsked \ PagesDone) <= 1
       /\ \A i \in PagesAsked \ PagesDone : \A k \in 1..(i - 1) : k \in PagesDone
       /\ \A i \in PagesDone :
             (\/ Len(page_tasks[i].res) = 0
              \/ \E j \in 1..Len(page_tasks[i].res) :
                    OlderThanBoundary(page_tasks[i].res[j]))
             => PagesAsked \subseteq 1..i

\* ten pages with stubs were fetched, the site has more, and the call is over
C22_StoppedAtTenthPage ==
    /\ parser = Some("politeka")
    /\ pc \in {"parsed", "returned"}
    /\ Cardinality(PagesDone) = 10
    /\ \A i \in PagesDone : Len(page_tasks[i].res) > 0
    /\ web.left > 0

----------------------------------------------------------------------------
\* the place of the first stub with the url u among the collected stubs
\* (0 when there is none)
FirstPlace(articles, u) ==
    LET at == {i \in 1..Len(articles) : articles[i].url = u} IN
    IF at = {} THEN 0 ELSE CHOOSE i \in at : \A k \in at : i <= k

\* C23: the items of the returned collection stand in the order of the
\* collected stubs (page order, then document order, first occurrence of a
\* url): of two items the earlier one belongs to the earlier stub.
\* (Violated: parse_news returns the items of the stub-only path first and
\* the items of the full parse after them.)
C23_ItemsKeepStubOrder ==
    ParserReturned =>
        \A i, j \in 1..Len(ReturnedItems) :
            i < j => FirstPlace(all_articles, ReturnedItems[i].url)
                        <= FirstPlace(all_articles, ReturnedItems[j].url)

----------------------------------------------------------------------------
\* the item carries the listing time of a stub of its url that was sent to
\* the full parse
HasListingTime(item) ==
    \E k \in 1..Len(full_parse_articles) :
        /\ full_parse_articles[k].url = item.url
        /\ item.article_data.published_at = full_parse_articles[k].datetime

\* C24: every item made by the full parse of an article carries as
\* published_at the listing time of its stub, not the time found in the
\* article page and not the time of the fetch; this holds for the items of
\* the batches and for the same items in the returned collection.
C24_FullParseKeepsListingTime ==
    /\ \A i \in 1..Len(full_news_items) : HasListingTime(full_news_items[i])
    /\ (ParserReturned /\ Get(result).parse_status = "success") =>
          \A i \in (Len(simple_news_items) + 1)..Len(ReturnedItems) :
              HasListingTime(ReturnedItems[i])

\* a collection came back with an article parsed in full
C24_FullItemReturned ==
    /\ ParserReturned
    /\ \E i \in (Len(simple_news_items) + 1)..Len(ReturnedItems) :
          /\ ReturnedItems[i].article_data.content_body = "body"
          /\ HasListingTime(ReturnedItems[i])
          /\ ReturnedItems[i].article_data.published_at /= Some(DT(OldDay, 1))

----------------------------------------------------------------------------
\* The resolution runs: NewsService._get_parser_for_url on urls of every
\* known host, with a path and, some of them, a query that names a host

ResolveHosts ==
    { <<"e", "pravda.com.ua">>, <<"pravda.com.ua">>, <<"Pravda.com.ua">>,
      <<"politeka.net">>, <<"other.example">> }

ResolveUrls ==
    { <<scheme>> \o www \o host \o <<path>> \o query :
        scheme \in Schemes,
        www \in {<<>>, <<"www.">>, <<"WWW.">>},
        host \in ResolveHosts,
        path \in {"/news", "/uk/newsfeed"},
        query \in {<<>>} \cup {<<"/?ref=">> \o h : h \in ResolveHosts} }

InitResolve == InitWith(ResolveUrls, {None}, "rich")

SpecResolve == InitResolve /\ [][ServiceParseNews]_vars

\* the host of the url: its netloc in lower case, a leading www. aside
HostOf(u) == ReplaceWww(Lower(Netloc(u)))

\* C25: the parser chosen for a url is the parser of the url's host; a url of
\* the host epravda.com.ua gets the epravda parser and never the pravda one,
\* and a url of the host pravda.com.ua or politeka.net gets the parser of
\* that host whatever its path and query hold.
\* (Violated: the domains are looked for anywhere in the url, so a query that
\* names epravda.com.ua takes a pravda.com.ua url to the epravda parser.)
C25_ParserOfTheHost ==
    pc /= "idle" =>
       /\ HostOf(url) = <<"e", "pravda.com.ua">> => parser = Some("epravda")
       /\ HostOf(url) = <<"pravda.com.ua">> => parser = Some("pravda")
       /\ HostOf(url) = <<"politeka.net">> => parser = Some("politeka")

----------------------------------------------------------------------------
\* the day the i-th listing url of the date sweep stands for
SweepDay(i) == Today - (i - 1)

\* C26: an epravda call with a boundary date B not after today T generates
\* (T - B).days + 1 listing urls, for the days T, T - 1, ... down to B in
\* this order, each carrying day, month and year of its date (today,
\* 2025-09-01, as 01 09 2025); a call without a boundary generates the one
\* url of T.
C26_DateSweepUrls ==
    (/\ parser = Some("epravda")
     /\ pc /= "start"
     /\ IsNone(until_date) \/ DateOf(Get(until_date)) <= Today)
    => /\ Len(page_urls) = IF IsNone(until_date) THEN 1
                           ELSE Today - DateOf(Get(until_date)) + 1
       /\ \A i \in 1..Len(page_urls) :
             /\ ExtractDateFromDateUrl(page_urls[i]) = Some(DT(SweepDay(i), 0))
             /\ page_urls[i].dd \in 1..31
             /\ page_urls[i].mm \in 1..12
       /\ \A i \in 1..(Len(page_urls) - 1) :
             Get(ExtractDateFromDateUrl(page_urls[i])).d
                > Get(ExtractDateFromDateUrl(page_urls[i + 1])).d
       /\ [dd |-> page_urls[1].dd, mm |-> page_urls[1].mm,
           yyyy |-> page_urls[1].yyyy] = [dd |-> 1, mm |-> 9, yyyy |-> 2025]

\* the boundary is yesterday, the last day of August: two urls, the second
\* for 31 08 2025
C26_SweepAcrossMonths ==
    /\ parser = Some("epravda")
    /\ pc = "pages"
    /\ until_date = Some(DT(Today - 1, 0))
    /\ Len(page_urls) = 2
    /\ page_urls[2].dd = 31
    /\ page_urls[2].mm = 8

----------------------------------------------------------------------------
AtRedirector(u) == StartsWith(u, <<"https://", "hotline.ua", "/go/">>)

\* C27: the original_url of every returned offer is the offer's own redirect
\* url, unmodified, or a url outside the redirector without query and
\* fragment; a resolution that never left the redirector gives the redirect
\* url itself.
\* (Violated: after GET, _get_original_url takes any final url that differs
\* from the redirect url, another url of the redirector included.)
C27_OriginalUrlResolvedOrOwn ==
    \A i \in 1..Len(ReturnedOffers) :
        \/ ReturnedOffers[i].original_url = ReturnedOffers[i].url
        \/ /\ ~AtRedirector(ReturnedOffers[i].original_url)
           /\ CleanUrlParameters(ReturnedOffers[i].original_url)
                 = ReturnedOffers[i].original_url

----------------------------------------------------------------------------
\* Several parse_news calls side by side.  get_news_service is cached, so all
\* requests go through one NewsService and its three parser instances, and
\* the calls of one source share the semaphores of that instance.  A call is
\* followed by its counts only:
\*   [parser, pc, pages_left, page_wait, page_fetch,
\*    full_left, art_wait, art_fetch]
\* pages_left: listing pages not asked for yet; full_left: full-parse articles
\* of the batches after the running one.  calls is the bag of these records.

\* How many calls of one source run side by side in the crowded runs.
SharedCalls == 6
\* How many listing pages a call of the paired runs asks for.
PairPages == 3
\* How many articles a call of the paired runs parses in full.
PairArticles == 6

\* a call before its parser starts: `pages` listing pages that carry stubs,
\* `full` same-domain stubs
Call(p, pages, full) ==
    [parser |-> p, pc |-> "start", pages_left |-> pages, page_wait |-> 0,
     page_fetch |-> 0, full_left |-> full, art_wait |-> 0, art_fetch |-> 0]

RECURSIVE Copies(_, _)
Copies(c, n) == IF n = 0 THEN EmptyBag ELSE SetToBag({c}) (+) Copies(c, n - 1)

\* the crowded runs: SharedCalls calls of one source, one page and one
\* article each; the paired runs: two calls, of one source or of two
SharedWorkloads ==
    {Copies(Call(p, 1, 1), SharedCalls) : p \in ParserNames}
    \cup {SetToBag({Call(p, PairPages, PairArticles)})
          (+) SetToBag({Call(q, PairPages, PairArticles)}) :
             p \in ParserNames, q \in ParserNames}

\* two calls of one source with more than a batch of articles each
LiveWorkloads ==
    {Copies(Call(p, PairPages, BatchSize + Overflow), 2) : p \in ParserNames}

InitCalls(workloads) ==
    /\ NewsAtRest
    /\ pc = "shared"
    /\ raised = None
    /\ now = 2 * HourTicks
    /\ request = None
    /\ raw_offers = <<>>
    /\ product = None
    /\ products = <<>>
    /\ calls \in workloads
    /\ gates = FullGates

InitShared == InitCalls(SharedWorkloads)

InitLive == InitCalls(LiveWorkloads)

sharedFrame == <<pc, raised, now, hist, request, raw_offers, product, products,
                 url, until_date, web, parser, page_urls, page_tasks,
                 page_semaphore, all_articles, articleVars, result, store,
                 response, built_data>>

\* the call c goes on as d
Becomes(c, d) == calls' = (calls (-) SetToBag({c})) (+) SetToBag({d})

\* _process_articles_async from the split to the gather of the first batch,
\* or the return of parse_news when no stub is parsed in full
ToArticles(c) ==
    IF c.full_left = 0
    THEN [c EXCEPT !.pc = "ended"]
    ELSE [c EXCEPT !.pc = "articles",
                   !.art_wait = Min(BatchSize, c.full_left),
                   !.full_left = c.full_left - Min(BatchSize, c.full_left)]

\* parse_news of the three parsers up to the first await on a listing page:
\* pravda awaits _get_content of its one page under no semaphore, epravda
\* gathers a task per date url, politeka awaits its pages one by one
StartCall ==
    \E c \in BagToSet(calls) :
        /\ c.pc = "start"
        /\ Becomes(c,
              CASE c.parser = "pravda" ->
                      [c EXCEPT !.pc = "pages", !.pages_left = 0, !.page_fetch = 1]
                [] c.parser = "epravda" ->
                      [c EXCEPT !.pc = "pages", !.pages_left = 0,
                                !.page_wait = c.pages_left]
                [] c.parser = "politeka" ->
                      [c EXCEPT !.pc = "pages", !.pages_left = c.pages_left - 1,
                                !.page_wait = 1])
        /\ UNCHANGED <<gates, sharedFrame>>

\* `async with self.page_semaphore` of a listing task
AcquirePage ==
    \E c \in BagToSet(calls) :
        /\ c.pc = "pages"
        /\ c.page_wait > 0
        /\ gates[c.parser].page > 0
        /\ gates' = [gates EXCEPT ![c.parser].page = @ - 1]
        /\ Becomes(c, [c EXCEPT !.page_wait = @ - 1, !.page_fetch = @ + 1])
        /\ UNCHANGED sharedFrame

\* a listing page arrives: the permit goes back (pravda holds none), politeka
\* goes on to its next page, and after the last page the articles start
PageArrives ==
    \E c \in BagToSet(calls) :
        /\ c.pc = "pages"
        /\ c.page_fetch > 0
        /\ gates' = IF c.parser = "pravda" THEN gates
                    ELSE [gates EXCEPT ![c.parser].page = @ + 1]
        /\ LET d == [c EXCEPT !.page_fetch = @ - 1] IN
           Becomes(c,
              IF d.pages_left > 0
              THEN [d EXCEPT !.pages_left = @ - 1, !.page_wait = 1]
              ELSE IF d.page_wait + d.page_fetch > 0 THEN d
              ELSE ToArticles(d))
        /\ UNCHANGED sharedFrame

\* `async with self.article_semaphore` of an article task
AcquireArticle ==
    \E c \in BagToSet(calls) :
        /\ c.pc = "articles"
        /\ c.art_wait > 0
        /\ gates[c.parser].article > 0
        /\ gates' = [gates EXCEPT ![c.parser].article = @ - 1]
        /\ Becomes(c, [c EXCEPT !.art_wait = @ - 1, !.art_fetch = @ + 1])
        /\ UNCHANGED sharedFrame

\* an article task that ends inside `async with` and keeps its permit
ArticleArrivesHoldingOn ==
    \E c \in BagToSet(calls) :
        /\ c.pc = "articles"
        /\ c.art_fetch > 0
        /\ Becomes(c, [c EXCEPT !.art_fetch = @ - 1])
        /\ UNCHANGED <<gates, sharedFrame>>

\* an article page arrives, or its fetch fails: the permit goes back
ArticleArrives ==
    \E c \in BagToSet(calls) :
        /\ c.pc = "articles"
        /\ c.art_fetch > 0
        /\ gates' = [gates EXCEPT ![c.parser].article = @ + 1]
        /\ Becomes(c, [c EXCEPT !.art_fetch = @ - 1])
        /\ UNCHANGED sharedFrame

\* the gather of a batch returns: the next batch, or the return of parse_news
JoinBatch ==
    \E c \in BagToSet(calls) :
        /\ c.pc = "articles"
        /\ c.art_wait = 0
        /\ c.art_fetch = 0
        /\ Becomes(c, ToArticles(c))
        /\ UNCHANGED <<gates, sharedFrame>>

NextShared ==
    \/ StartCall
    \/ AcquirePage
    \/ PageArrives
    \/ AcquireArticle
    \/ ArticleArrives
    \/ JoinBatch

\* the crowded and the paired runs
SpecShared == InitShared /\ [][NextShared]_vars

\* two long calls of one source; every fetch ends and every task that can
\* take a permit does so in the end
SpecLive == InitLive /\ [][NextShared]_vars /\ WF_vars(NextShared)

----------------------------------------------------------------------------
RECURSIVE SumOver(_, _)
SumOver(S, f) ==
    IF S = {} THEN 0
    ELSE LET x == CHOOSE y \in S : TRUE IN f[x] + SumOver(S \ {x}, f)

\* the fetches in flight of all running calls of the source p
PageFetchesOf(p) ==
    LET S == {c \in BagToSet(calls) : c.parser = p} IN
    SumOver(S, [c \in S |-> calls[c] * c.page_fetch])

ArticleFetchesOf(p) ==
    LET S == {c \in BagToSet(calls) : c.parser = p} IN
    SumOver(S, [c \in S |-> calls[c] * c.art_fetch])

\* C28: over all calls of one source that run side by side at most 10
\* article fetches and at most 5 listing-page fetches are in flight, and a
\* task is kept waiting only by fetches of its own source: the gate it waits
\* at is empty only when that source has all its permits in flight.
\* (Violated: PravdaNewsParser has no page semaphore, so six pravda calls
\* have six listing fetches in flight.)
C28_GatesSharedPerSource ==
    /\ \A p \in ParserNames :
          /\ ArticleFetchesOf(p) <= 10
          /\ PageFetchesOf(p) <= 5
    /\ \A c \in BagToSet(calls) :
          /\ (c.art_wait > 0 /\ gates[c.parser].article = 0)
                => ArticleFetchesOf(c.parser) = ArticleGate
          /\ (c.page_wait > 0 /\ gates[c.parser].page = 0)
                => PageFetchesOf(c.parser) = PageGate

----------------------------------------------------------------------------
\* every call has come to the end of its parser's parse_news
CallsEnded == \A c \in BagToSet(calls) : c.pc = "ended"

\* C29: when every fetch that was started completes and every task that can
\* take a permit takes it, every parse_news call comes to its end: the page
\* gate, the article gate and the joins of the batches never hold a call for
\* ever, also when two calls of one source share the gates and each has more
\* than a batch of articles.  (What a call hands back at its end is settled by
\* the claims on the collection; here the call is followed to its return.)
C29_EveryCallEnds == <>CallsEnded

\* both calls of the source stand in a batch, the article gate has no permit
\* left and tasks of both calls wait for one
C29_BothCallsWaitAtArticleGate ==
    /\ pc = "shared"
    /\ \E p \in ParserNames :
          /\ gates[p].article = 0
          /\ \E c \in BagToSet(calls) :
                /\ c.parser = p
                /\ c.art_wait > 0
                /\ c.art_fetch > 0
                /\ \/ CopiesIn(c, calls) = 2
                   \/ \E d \in BagToSet(calls) :
                         d # c /\ d.parser = p /\ d.art_wait > 0

----------------------------------------------------------------------------
\* A parse of a source whose earlier, successful parse is in the database.

\* how long ago the earlier parse was stored: now, an hour ago, more than an
\* hour ago
StoredAges == {0, HourTicks, HourTicks + 1}

\* the item of the earlier parse
EarlierItem(p) ==
    NewsItem(NewsUrl(p), BaseUrl(p) \o <<"/a0">>,
             ArticleData("t0", "", Some(DT(Today, 0)), <<>>, None))

\* the collection the earlier parse returned
EarlierCollection(p) == SuccessCollection(NewsUrl(p), <<EarlierItem(p)>>).v

\* the database holds a fresh document of another source and, after it, the
\* document of the earlier parse of the source that is parsed now
InitReparse ==
    /\ pc = "idle"
    /\ until_date = None
    /\ \E p \in ParserNames, q \in ParserNames, age \in StoredAges :
          /\ q /= p
          /\ url = NewsUrl(p)
          /\ store = <<Document(EarlierCollection(q), 2 * HourTicks),
                       Document(EarlierCollection(p), 2 * HourTicks - age)>>
    /\ web = [mode |-> "rich", left |-> MaxStubs]
    /\ parser = None
    /\ page_urls = <<>>
    /\ page_tasks = <<>>
    /\ page_semaphore = PageGate
    /\ all_articles = <<>>
    /\ full_parse_articles = <<>>
    /\ simple_news_items = <<>>
    /\ full_news_items = <<>>
    /\ batch_start = 0
    /\ article_tasks = <<>>
    /\ article_semaphore = ArticleGate
    /\ result = None
    /\ raised = None
    /\ now = 2 * HourTicks
    /\ response = None
    /\ hist = NoHistory
    /\ request = None
    /\ raw_offers = <<>>
    /\ product = None
    /\ products = <<>>
    /\ built_data = None
    /\ SharedAtRest

\* NewsService.parse_news from the call to the return
NextReparse ==
    \/ ServiceParseNews
    \/ PravdaStart
    \/ \E answer \in PageAnswers("pravda") : PravdaListingDone(answer)
    \/ EpravdaStart
    \/ PolitekaStart
    \/ PageAcquire
    \/ \E i \in 1..Len(page_tasks), answer \in PageAnswers("epravda") :
          EpravdaPageDone(i, answer)
    \/ EpravdaPagesJoin
    \/ \E answer \in PageAnswers("politeka") : PolitekaPageDone(answer)
    \/ ArticleAcquire
    \/ \E i \in 1..Len(article_tasks), answer \in ArticleAnswers :
          ArticleDone(i, answer)
    \/ BatchJoin
    \/ \E db \in {"ok", "fault"} : ServiceSave(db)

SpecReparse == InitReparse /\ [][NextReparse]_vars

\* the step from the parser's return to the service's return
ServiceReturns == pc = "parsed" /\ pc' = "returned"

\* C30: NewsService.parse_news calls save_news_collection once, after the
\* parser returned its collection and before the service returns, whatever
\* the collection's status: no save is made before the parser has returned,
\* no call makes two, and a call that has returned has made one.  The save
\* writes the parser's collection over the stored document of the source
\* that was parsed within the last hour, and inserts it when there is none;
\* so a failed collection with no items takes the place of the successful
\* collection stored for the source less than an hour before.  Documents of
\* other sources stay as they are.
C30_SavedOnceOverTheStored ==
    /\ [](/\ hist.saves <= 1
          /\ hist.saves = 1 => (~IsNone(result) /\ pc \in {"returned", "raised"})
          /\ pc = "returned" => hist.saves = 1)
    /\ [][ServiceReturns =>
             LET coll == Get(result)
                 new == Document(coll, now)
             IN /\ DocsNotOf(store', coll.source) = DocsNotOf(store, coll.source)
                /\ IF WindowHits(coll.source) /= {}
                   THEN ReplacedInWindow(coll, new)
                   ELSE InsertedOne(coll, new)]_vars

\* the service returned a failed collection with no items, and the database
\* holds it where the successful collection of the source was
C30_FailedOverSuccessful ==
    /\ pc = "returned"
    /\ Get(result).parse_status = "failed"
    /\ Get(result).total_items = 0
    /\ Len(store) = 2
    /\ store[2] = Document(Get(result), now)
    /\ store[1].source /= url
    /\ store[1].parse_status = "success"

====
